---- MODULE Spec2Model ----
(***************************************************************************)
(* A model of rit, a git clone in Rust: the lockfile discipline, the       *)
(* staging index, the tree difference, the migration planner and the       *)
(* workspace applier used by checkout.                                     *)
(*                                                                         *)
(* Fourteen specifications share the module:                                 *)
(*   SpecIndex    - the Index add / remove API on one in-memory index      *)
(*   SpecCheckout - one checkout: tree_diff, plan_changes, apply_migration *)
(*   SpecLock     - invocations of add, commit, branch and checkout side   *)
(*                  by side, with their lockfiles                          *)
(*   SpecStore    - two Database::store calls side by side, read_object    *)
(*   SpecMyers    - Myers::diff on bounded line sequences                  *)
(*   SpecHunk     - Hunk::filter on bounded edit lists                     *)
(*   SpecIndexFile - the bytes Index::write_updates writes, Index::load    *)
(*   SpecRefs     - Refs::create_branch calls one after another            *)
(*   SpecStatus   - Repository::status on a workspace, an index and a HEAD *)
(*   SpecRevision - Revision::from on a string                             *)
(*   SpecResolve  - RevisionResolver::read_ref on refs and an object store *)
(*   SpecChain    - RevisionResolver::resolver on a database of commits    *)
(*   SpecDamagedFile - Index::load of an index file that was changed       *)
(*   SpecRace     - two Refs::create_branch calls side by side             *)
(***************************************************************************)
EXTENDS Integers, Sequences, FiniteSets, TLC

VARIABLES
    index,      \* the Index struct of the running command (entries, parents, changed)
    nops,       \* SpecIndex: number of API calls made so far
    lastOp,     \* SpecIndex: the last API call
    gitfs,      \* the files under .git: [exists, data], data a sequence of chunks
    fs,         \* the files and directories under the workspace root
    treeA,      \* SpecCheckout: the tree of HEAD
    treeB,      \* SpecCheckout: the tree of the revision to check out
    pc,         \* SpecCheckout: where the checkout command is
    migration,  \* SpecCheckout: the Migration planned
    todo,       \* SpecCheckout: what Workspace::apply_migration has still to do
    log,        \* SpecCheckout: the file-system steps of apply_migration so far
    result,     \* SpecCheckout: the Result of Repository::apply_migration
    procs,      \* SpecLock: the invocations running side by side
    objects,    \* SpecLock: the objects with a file in the object database
    myers,      \* SpecMyers: the Myers struct and what its methods returned
    hunk,       \* SpecHunk: an edit list and the hunks Hunk::filter made of it
    ixfile,     \* SpecIndexFile: the bytes of .git/index, what was written and what was read back
    status,     \* SpecStatus: HEAD's tree and what status reported
    rev         \* the revision given and what became of it; SpecCheckout: what
                \* the resolver returned

varsIndex == <<index, nops, lastOp>>

varsCheckout == <<gitfs, fs, treeA, treeB, pc, migration, todo, log, result, procs, objects, myers, hunk, ixfile, status, rev>>

vars == <<index, nops, lastOp, gitfs, fs, treeA, treeB, pc, migration, todo, log, result, procs, objects, myers, hunk, ixfile, status, rev>>

(***************************************************************************)
(* Paths.  A path is a sequence of component names; the empty sequence is  *)
(* the root ("" in the code).  PathBuf orders paths component by component *)
(* and the names used here are ordered as Rank orders them.                *)
(***************************************************************************)
\* every name in use, in byte order ("." is Component::CurDir, least of all)
NameSeq == <<".", ".git", "a", "ab", "b", "cd", "objects">>

MaxDepth == 2

\* the file and directory names of tracked paths
Names == {"a", "b"}

Rank(n) == CHOOSE i \in 1..Len(NameSeq) : NameSeq[i] = n

PathsOfLen(n) == [1..n -> Names]

IndexPaths == UNION {PathsOfLen(n) : n \in 1..MaxDepth}

IsPrefix(d, p) == Len(d) <= Len(p) /\ SubSeq(p, 1, Len(d)) = d

IsStrictAncestor(d, p) == Len(d) < Len(p) /\ IsPrefix(d, p)

RECURSIVE PathCmp(_, _)
\* -1, 0, 1: Ord for PathBuf, component by component
PathCmp(p, q) ==
    IF p = <<>> /\ q = <<>> THEN 0
    ELSE IF p = <<>> THEN -1
    ELSE IF q = <<>> THEN 1
    ELSE IF Rank(Head(p)) < Rank(Head(q)) THEN -1
    ELSE IF Rank(Head(p)) > Rank(Head(q)) THEN 1
    ELSE PathCmp(Tail(p), Tail(q))

(***************************************************************************)
(* Index (src/src/index.rs).  entries is the BTreeMap keyed by path, kept  *)
(* as the set of its values; parents is the HashMap from a directory to    *)
(* the Vec of entry paths pushed beneath it.                               *)
(***************************************************************************)
Oids == {1, 2}

Modes == {"100644", "100755"}

Entry(p, o, m) == [path |-> p, oid |-> o, mode |-> m]

EmptyIndex == [entries |-> {}, parents |-> <<>>, changed |-> FALSE]

HasKey(es, key) == \E e \in es : e.path = key

GetEntry(es, key) == CHOOSE e \in es : e.path = key

\* BTreeMap::insert / remove: one value per key
BTreeMapInsert(es, e) == {x \in es : x.path # e.path} \cup {e}

BTreeMapRemove(es, key) == {x \in es : x.path # key}

\* Entry::parent_directories: the strict ancestor directories, shallowest first
parent_directories(p) == [k \in 1..(Len(p) - 1) |-> SubSeq(p, 1, k)]

RemoveAt(s, i) == SubSeq(s, 1, i - 1) \o SubSeq(s, i + 1, Len(s))

RECURSIVE BinarySearchLoop(_, _, _, _)
\* the loop of slice::binary_search_by (0-based base, as in the library)
BinarySearchLoop(s, key, base, size) ==
    IF size <= 1 THEN base
    ELSE LET half == size \div 2
             mid == base + half
         IN BinarySearchLoop(s, key,
                IF PathCmp(s[mid + 1], key) = 1 THEN base ELSE mid,
                size - half)

\* Vec::binary_search: the 1-based index of key in s, or 0 when not found
binary_search(s, key) ==
    IF Len(s) = 0 THEN 0
    ELSE LET base == BinarySearchLoop(s, key, 0, Len(s))
         IN IF s[base + 1] = key THEN base + 1 ELSE 0

\* the and_modify closure of remove_entry on one parents vector
ForgetChild(f, key) ==
    LET i == binary_search(f, key) IN IF i = 0 THEN f ELSE RemoveAt(f, i)

RECURSIVE ForgetInParents(_, _, _)
ForgetInParents(parents, dirs, key) ==
    IF dirs = <<>> THEN parents
    ELSE LET d == Head(dirs)
             ps == IF d \in DOMAIN parents
                   THEN [parents EXCEPT ![d] = ForgetChild(@, key)]
                   ELSE parents
         IN ForgetInParents(ps, Tail(dirs), key)

remove_entry(idx, key) ==
    IF ~HasKey(idx.entries, key) THEN idx
    ELSE [entries |-> BTreeMapRemove(idx.entries, key),
          parents |-> ForgetInParents(idx.parents, parent_directories(key), key),
          changed |-> TRUE]

RECURSIVE RemoveEntries(_, _)
RemoveEntries(idx, keys) ==
    IF keys = <<>> THEN idx
    ELSE RemoveEntries(remove_entry(idx, Head(keys)), Tail(keys))

\* what discarding every entry would give
discard_conflicts_all(idx, e) == [entries |-> {}, parents |-> <<>>, changed |-> TRUE]

discard_conflicts_no_children(idx, e) ==
    RemoveEntries(idx, parent_directories(e.path))

discard_conflicts(idx, e) ==
    LET i1 == RemoveEntries(idx, parent_directories(e.path))
    IN IF e.path \in DOMAIN i1.parents
       THEN RemoveEntries(i1, i1.parents[e.path])
       ELSE i1

RECURSIVE PushToParents(_, _, _)
PushToParents(parents, dirs, p) ==
    IF dirs = <<>> THEN parents
    ELSE LET d == Head(dirs)
             ps == IF d \in DOMAIN parents
                   THEN [parents EXCEPT ![d] = Append(@, p)]
                   ELSE parents @@ (d :> <<p>>)
         IN PushToParents(ps, Tail(dirs), p)

add_entry(idx, e) ==
    LET i1 == discard_conflicts(idx, e)
    IN [entries |-> BTreeMapInsert(i1.entries, e),
        parents |-> PushToParents(i1.parents, parent_directories(e.path), e.path),
        changed |-> TRUE]

\* Index::add: Entry::new from the path, the stat and the oid, then add_entry
add(idx, p, o, m) == add_entry(idx, Entry(p, o, m))

remove(idx, p) ==
    LET i1 == IF p \in DOMAIN idx.parents
              THEN RemoveEntries(idx, idx.parents[p])
              ELSE idx
    IN [remove_entry(i1, p) EXCEPT !.changed = TRUE]

has_entry(idx, key) == HasKey(idx.entries, key) \/ key \in DOMAIN idx.parents

(***************************************************************************)
(* Index::load reads the entries of .git/index in file order (ascending    *)
(* path order) and add_entry's each of them.                               *)
(***************************************************************************)
RECURSIVE SortedPaths(_)
\* the paths of a set in ascending order
SortedPaths(ps) ==
    IF ps = {} THEN <<>>
    ELSE LET least == CHOOSE p \in ps : \A q \in ps : PathCmp(p, q) <= 0
         IN <<least>> \o SortedPaths(ps \ {least})

RECURSIVE AddEntries(_, _, _)
AddEntries(idx, es, order) ==
    IF order = <<>> THEN idx
    ELSE AddEntries(add_entry(idx, GetEntry(es, Head(order))), es, Tail(order))

\* what a load that reads nothing would give
load_empty(disk) == EmptyIndex

\* clear(), then add_entry for each entry read
load(disk) == AddEntries(EmptyIndex, disk, SortedPaths({e.path : e \in disk}))

(***************************************************************************)
(* SpecIndex: any sequence of add and remove calls on an index that starts *)
(* empty or loaded.                                                        *)
(***************************************************************************)
MaxOps == 3

IndexModes == {"100644"}

\* the index files an index is loaded from
DiskIndexes ==
    { {},
      {Entry(<<"a">>, 1, "100644")},
      {Entry(<<"a", "a">>, 1, "100644"), Entry(<<"a", "b">>, 2, "100644")},
      {Entry(<<"a", "b">>, 1, "100644"), Entry(<<"b">>, 1, "100644")} }

NoOp == [op |-> "none", path |-> <<>>, conflict |-> FALSE, present |-> FALSE]

Conflicts(es, p) ==
    \E e \in es : IsStrictAncestor(e.path, p) \/ IsStrictAncestor(p, e.path)

InitIndex ==
    /\ index \in {load(d) : d \in DiskIndexes}
    /\ nops = 0
    /\ lastOp = NoOp
    /\ gitfs = <<>> /\ fs = <<>> /\ treeA = {} /\ treeB = {} /\ pc = "unused"
    /\ migration = <<>> /\ todo = <<>> /\ log = <<>> /\ result = "unused"
    /\ procs = <<>> /\ objects = {} /\ myers = <<>> /\ hunk = <<>> /\ ixfile = <<>> /\ status = <<>> /\ rev = <<>>

IndexAdd ==
    /\ nops < MaxOps
    /\ \E p \in IndexPaths, o \in Oids, m \in IndexModes :
        /\ index' = add(index, p, o, m)
        /\ lastOp' = [op |-> "add", path |-> p,
                      conflict |-> Conflicts(index.entries, p),
                      present |-> HasKey(index.entries, p)]
    /\ nops' = nops + 1
    /\ UNCHANGED varsCheckout

IndexRemove ==
    /\ nops < MaxOps
    /\ \E p \in IndexPaths :
        /\ index' = remove(index, p)
        /\ lastOp' = [op |-> "remove", path |-> p,
                      conflict |-> FALSE,
                      present |-> has_entry(index, p)]
    /\ nops' = nops + 1
    /\ UNCHANGED varsCheckout

NextIndex == IndexAdd \/ IndexRemove

SpecIndex == InitIndex /\ [][NextIndex]_vars

\* C3: after every add / remove no two entries share a path (I1) and no entry
\* path is a strict ancestor directory of another entry path (I2)
I1 == \A e1, e2 \in index.entries : e1.path = e2.path => e1 = e2

I2 == \A e1, e2 \in index.entries : ~IsStrictAncestor(e1.path, e2.path)

C3_I1_I2 == I1 /\ I2

\* an add has just replaced an entry that conflicted with its path
C3_Witness ==
    /\ lastOp.op = "add" /\ lastOp.conflict
    /\ HasKey(index.entries, lastOp.path)
    /\ Cardinality(index.entries) >= 2

\* C4: for every directory d, parents[d] lists exactly the paths of the
\* current entries beneath d, each once (I3)
Dirs == UNION {PathsOfLen(n) : n \in 1..(MaxDepth - 1)}

ChildrenOf(idx, d) == IF d \in DOMAIN idx.parents THEN idx.parents[d] ELSE <<>>

Elements(s) == {s[i] : i \in 1..Len(s)}

I3 ==
    \A d \in Dirs \cup DOMAIN index.parents :
        LET v == ChildrenOf(index, d)
        IN /\ Elements(v) = {e.path : e \in {x \in index.entries : IsStrictAncestor(d, x.path)}}
           /\ Len(v) = Cardinality(Elements(v))

C4_I3 == I3

(***************************************************************************)
(* Trees (src/src/tree.rs) as the object database holds them.  An object   *)
(* id is the SHA-1 of the content, so a tree's id is modelled by its       *)
(* content: the set of its leaves [path, oid, mode], paths relative to the *)
(* tree.  A tree read back (Tree::try_from) has one Marker per name.       *)
(***************************************************************************)
MaxFiles == 2

TreePaths == {<<"a">>, <<"a", "a">>, <<"a", "b">>, <<"b">>}

FileVariants ==
    { [oid |-> 1, mode |-> "100644"],
      [oid |-> 2, mode |-> "100644"],
      [oid |-> 1, mode |-> "100755"] }

Leaf(p, v) == [path |-> p, oid |-> v.oid, mode |-> v.mode]

Leaves == {Leaf(p, v) : p \in TreePaths, v \in FileVariants}

\* the trees Tree::build makes of an index: one leaf per path, no path both a
\* file and a directory
IsTree(t) ==
    \A e1, e2 \in t :
        /\ (e1.path = e2.path => e1 = e2)
        /\ ~IsStrictAncestor(e1.path, e2.path)

TreeOids == {t \in SUBSET Leaves : Cardinality(t) <= MaxFiles /\ IsTree(t)}

NoneV == [kind |-> "none"]

NoOid == [some |-> FALSE]

SomeOid(t) == [some |-> TRUE, oid |-> t]

\* Option<String> == Option<String>
OidEq(x, y) == IF x.some /\ y.some THEN x.oid = y.oid ELSE x.some = y.some

Marker(name, oid, mode) == [kind |-> "marker", name |-> name, oid |-> oid, mode |-> mode]

\* Marker::kind() == Kind::Tree
is_tree(m) == m.mode = "40000"

\* PartialEq of two present tree entries (the kinds first: a blob id and a
\* tree id are never equal)
MarkerEq(m1, m2) == m1.name = m2.name /\ m1.mode = m2.mode /\ m1.oid = m2.oid

\* the names of a tree (the keys of Tree.entries)
TreeNames(t) == {e.path[1] : e \in t}

\* the content (id) of the subtree called name
Subtree(t, name) ==
    { [path |-> Tail(e.path), oid |-> e.oid, mode |-> e.mode] :
        e \in {x \in t : Len(x.path) > 1 /\ x.path[1] = name} }

\* Tree::get_entry on a tree parsed from the database
get_entry(t, name) ==
    IF \E e \in t : e.path = <<name>>
    THEN LET e == CHOOSE x \in t : x.path = <<name>>
         IN Marker(name, e.oid, e.mode)
    ELSE IF name \in TreeNames(t)
    THEN Marker(name, Subtree(t, name), "40000")
    ELSE NoneV

get_tree_oid(m) == IF is_tree(m) THEN SomeOid(m.oid) ELSE NoOid

\* oid_to_tree, with Tree::new() when there is no oid
oid_to_tree(o) == IF o.some THEN o.oid ELSE {}

(***************************************************************************)
(* TreeDiff (src/src/database/tree_diff.rs).  changes is the HashMap from  *)
(* a path to (before, after).                                              *)
(***************************************************************************)
Insert(changes, path, pair) ==
    IF path \in DOMAIN changes
    THEN [changes EXCEPT ![path] = pair]
    ELSE changes @@ (path :> pair)

\* the record detect_deletions makes of one name, after the recursion
DeletionRecord(changes, path, entry, other, a_oid, b_oid) ==
    IF ~a_oid.some /\ ~b_oid.some THEN Insert(changes, path, <<entry, other>>)
    ELSE IF ~a_oid.some THEN Insert(changes, path, <<entry, NoneV>>)
    ELSE IF ~b_oid.some THEN Insert(changes, path, <<NoneV, other>>)
    ELSE changes

RECURSIVE compare_oids(_, _, _, _)
RECURSIVE detect_deletions(_, _, _, _, _)
RECURSIVE detect_additions(_, _, _, _, _)

compare_oids(changes, a, b, prefix) ==
    IF OidEq(a, b) THEN changes
    ELSE LET tree_a == oid_to_tree(a)
             tree_b == oid_to_tree(b)
             c1 == detect_deletions(changes, tree_a, tree_b, prefix, TreeNames(tree_a))
         IN detect_additions(c1, tree_a, tree_b, prefix, TreeNames(tree_b))

\* names: the names of a still to visit
detect_deletions(changes, a, b, prefix, names) ==
    IF names = {} THEN changes
    ELSE LET name == CHOOSE n \in names : TRUE
             entry == get_entry(a, name)
             other == get_entry(b, name)
             rest == names \ {name}
         IN IF other # NoneV /\ MarkerEq(entry, other)
            THEN detect_deletions(changes, a, b, prefix, rest)
            ELSE LET a_oid == get_tree_oid(entry)
                     b_oid == IF other # NoneV THEN get_tree_oid(other) ELSE NoOid
                     path == prefix \o <<name>>
                     c1 == compare_oids(changes, a_oid, b_oid, path)
                     c2 == DeletionRecord(c1, path, entry, other, a_oid, b_oid)
                 IN detect_deletions(c2, a, b, prefix, rest)

\* names: the names of b still to visit
detect_additions(changes, a, b, prefix, names) ==
    IF names = {} THEN changes
    ELSE LET name == CHOOSE n \in names : TRUE
             entry == get_entry(b, name)
             rest == names \ {name}
         IN IF get_entry(a, name) # NoneV
            THEN detect_additions(changes, a, b, prefix, rest)
            ELSE LET path == prefix \o <<name>>
                     c1 == IF is_tree(entry)
                           THEN compare_oids(changes, NoOid, get_tree_oid(entry), path)
                           ELSE Insert(changes, path, <<NoneV, entry>>)
                 IN detect_additions(c1, a, b, prefix, rest)

\* Database.path: root.join(".git/objects") with root "."
DbPath == <<".", ".git", "objects">>

\* Database::tree_diff
tree_diff(a, b) == compare_oids(<<>>, a, b, DbPath)

(***************************************************************************)
(* Migration (src/src/repository/migration.rs).  changes[action] is the    *)
(* Vec of (path, new entry); the diff is a HashMap, so the order in which  *)
(* plan_changes visits it is not fixed: each Vec is kept as the function   *)
(* from its paths to their entries and the applier takes them in any       *)
(* order.  rmdirs and mkdirs are Vecs, duplicates kept.                    *)
(***************************************************************************)
\* path.parent().unwrap().ancestors(): the parent first, the root "" last
ancestors(path) == [k \in 1..Len(path) |-> SubSeq(path, 1, Len(path) - k)]

ActionOf(pair) ==
    IF pair[1] = NoneV THEN "Create"
    ELSE IF pair[2] = NoneV THEN "Remove"
    ELSE "Update"

NewMigration ==
    [rmdirs |-> <<>>, mkdirs |-> <<>>,
     changes |-> [Create |-> <<>>, Remove |-> <<>>, Update |-> <<>>]]

RECURSIVE PlanLoop(_, _, _)
\* order: the paths of the diff in the order the HashMap yields them
PlanLoop(m, diff, order) ==
    IF order = <<>> THEN m
    ELSE LET path == Head(order)
             action == ActionOf(diff[path])
             m1 == IF action = "Remove"
                   THEN [m EXCEPT !.rmdirs = @ \o ancestors(path)]
                   ELSE [m EXCEPT !.mkdirs = @ \o ancestors(path)]
             m2 == [m1 EXCEPT !.changes[action] = Insert(@, path, diff[path][2])]
         IN PlanLoop(m2, diff, Tail(order))

plan_changes(diff) == PlanLoop(NewMigration, diff, SortedPaths(DOMAIN diff))

(***************************************************************************)
(* The file system under the workspace root: files (data and executable    *)
(* bit) and directories, by resolved path.                                 *)
(***************************************************************************)
RECURSIVE Resolve(_)
\* path resolution drops "." components
Resolve(p) ==
    IF p = <<>> THEN <<>>
    ELSE IF Head(p) = "." THEN Resolve(Tail(p))
    ELSE <<Head(p)>> \o Resolve(Tail(p))

\* Workspace::workspace_path, the workspace being "."
workspace_path(p) == Resolve(<<".">> \o p)

Parent(p) == SubSeq(p, 1, Len(p) - 1)

Kind(f, p) ==
    IF p \in DOMAIN f.files THEN "file"
    ELSE IF p \in f.dirs THEN "dir"
    ELSE "none"

HasChildren(f, p) ==
    \/ \E q \in DOMAIN f.files : IsStrictAncestor(p, q)
    \/ \E q \in f.dirs : IsStrictAncestor(p, q)

Ok(f) == [ok |-> TRUE, fs |-> f]

Err(f) == [ok |-> FALSE, fs |-> f]

DropFile(files, p) == [q \in DOMAIN files \ {p} |-> files[q]]

\* std::fs::remove_file
FsRemoveFile(f, p) ==
    IF Kind(f, p) = "file"
    THEN Ok([f EXCEPT !.files = DropFile(@, p)])
    ELSE Err(f)

\* std::fs::remove_dir: the directory must exist, be empty and not be the root
FsRemoveDir(f, p) ==
    IF Kind(f, p) = "dir" /\ ~HasChildren(f, p) /\ p # <<>>
    THEN Ok([f EXCEPT !.dirs = @ \ {p}])
    ELSE Err(f)

\* std::fs::create_dir: nothing may exist at the path
FsCreateDir(f, p) ==
    IF Kind(f, p) = "none" /\ Kind(f, Parent(p)) = "dir"
    THEN Ok([f EXCEPT !.dirs = @ \cup {p}])
    ELSE Err(f)

\* the decimal value of a mode string: mode.parse::<u32>()
ModeNumber(mode) ==
    IF mode = "100644" THEN 100644 ELSE IF mode = "100755" THEN 100755 ELSE 40000

\* utilities::is_executable on the permission bits
is_executable(n) ==
    (n % 2 = 1) \/ ((n \div 8) % 2 = 1) \/ ((n \div 64) % 2 = 1)

\* OpenOptions create_new, write_all, set_permissions
FsCreateNew(f, p, data, mode) ==
    IF Kind(f, p) = "none" /\ Kind(f, Parent(p)) = "dir"
    THEN Ok([f EXCEPT !.files =
                @ @@ (p :> [data |-> data, exec |-> is_executable(ModeNumber(mode))])])
    ELSE Err(f)

(***************************************************************************)
(* Workspace (src/src/workspace.rs)                                        *)
(***************************************************************************)
create_dir(f, path) ==
    LET p == workspace_path(path)
    IN IF Kind(f, p) = "none" THEN Err(f)
       ELSE IF Kind(f, p) = "file"
       THEN LET r == FsRemoveDir(f, p)
            IN IF r.ok THEN FsCreateDir(r.fs, p) ELSE r
       ELSE FsCreateDir(f, p)

remove_dir(f, path) == FsRemoveDir(f, workspace_path(path))

\* one turn of the loop of apply_change_list; "panic" when the entry is None
apply_change(f, action, path, entry) ==
    LET p == workspace_path(path)
        r == FsRemoveFile(f, p)
    IN IF ~r.ok THEN [ok |-> FALSE, panic |-> FALSE, fs |-> f]
       ELSE IF action = "Remove" THEN [ok |-> TRUE, panic |-> FALSE, fs |-> r.fs]
       ELSE IF entry = NoneV THEN [ok |-> FALSE, panic |-> TRUE, fs |-> r.fs]
       ELSE LET w == FsCreateNew(r.fs, p, entry.oid, entry.mode)
            IN [ok |-> w.ok, panic |-> FALSE, fs |-> w.fs]

RECURSIVE InsertSorted(_, _)
InsertSorted(s, p) ==
    IF s = <<>> THEN <<p>>
    ELSE IF PathCmp(p, Head(s)) <= 0 THEN <<p>> \o s
    ELSE <<Head(s)>> \o InsertSorted(Tail(s), p)

RECURSIVE Sort(_)
\* Vec::sort of paths
Sort(s) == IF s = <<>> THEN <<>> ELSE InsertSorted(Sort(Tail(s)), Head(s))

Reverse(s) == [i \in 1..Len(s) |-> s[Len(s) + 1 - i]]

DirSteps(kind, dirs) == [i \in 1..Len(dirs) |-> [kind |-> kind, path |-> dirs[i]]]

\* the phases with the Update writes moved to the front
MigrationPhasesUpdateFirst == <<"Update", "Remove", "rmdir", "mkdir", "Create">>

\* Workspace::apply_migration: the phases in the order of the calls
MigrationPhases == <<"Remove", "rmdir", "mkdir", "Create", "Update">>

\* the directory steps of the two middle phases
rmdir_steps(m) == DirSteps("rmdir", Reverse(Sort(m.rmdirs)))

mkdir_steps(m) == DirSteps("mkdir", Sort(m.mkdirs))

(***************************************************************************)
(* Lockfile (src/src/lockfile.rs) on the files under .git.  A file is      *)
(* [exists, data]; data is the sequence of the chunks written to it, one   *)
(* per write_all.  The lock of P is the file P.lock.                       *)
(***************************************************************************)
GitNames == {"index", "HEAD", "refs/heads/b"}

GitFile(name, lock) == [name |-> name, lock |-> lock]

GitFiles == {GitFile(n, l) : n \in GitNames, l \in BOOLEAN}

Absent == [exists |-> FALSE, data |-> <<>>]

File(data) == [exists |-> TRUE, data |-> data]

\* what opening P.lock without create_new would do: truncate and succeed
try_lock_no_excl(g, P) ==
    [ok |-> TRUE, g |-> [g EXCEPT ![GitFile(P, TRUE)] = File(<<>>)]]

\* OpenOptions create_new on P.lock: fails when it exists
try_lock(g, P) ==
    IF g[GitFile(P, TRUE)].exists
    THEN [ok |-> FALSE, g |-> g]
    ELSE [ok |-> TRUE, g |-> [g EXCEPT ![GitFile(P, TRUE)] = File(<<>>)]]

\* what writing to P itself would do
write_all_in_place(g, P, chunk) ==
    [g EXCEPT ![GitFile(P, FALSE)] = File(Append(@.data, chunk))]

\* Lockfile::write_all: the bytes go to P.lock
write_all(g, P, chunk) ==
    [g EXCEPT ![GitFile(P, TRUE)] = File(Append(@.data, chunk))]

\* std::fs::rename(lock, path)
commit(g, P) ==
    [g EXCEPT ![GitFile(P, FALSE)] = g[GitFile(P, TRUE)], ![GitFile(P, TRUE)] = Absent]

\* std::fs::remove_file(lock)
\* a release that leaves the lock file
release_keeps_lock(g, P) == g

release(g, P) == [g EXCEPT ![GitFile(P, TRUE)] = Absent]

(***************************************************************************)
(* The index file: header, the entries in ascending path order, digest.    *)
(***************************************************************************)
HeaderChunk(n) == [t |-> "header", count |-> n]

EntryChunk(e) == [t |-> "entry", e |-> e]

\* the SHA-1 of the n chunks before it
DigestChunk(n) == [t |-> "digest", of |-> n]

IndexChunks(es) ==
    LET order == SortedPaths({e.path : e \in es})
    IN <<HeaderChunk(Cardinality(es))>>
       \o [i \in 1..Len(order) |-> EntryChunk(GetEntry(es, order[i]))]
       \o <<DigestChunk(Len(order) + 1)>>

RECURSIVE WriteChunks(_, _, _)
WriteChunks(g, P, chunks) ==
    IF chunks = <<>> THEN g
    ELSE WriteChunks(write_all(g, P, Head(chunks)), P, Tail(chunks))

\* what write_updates would do without its last call, the commit
write_updates_no_commit(g, idx) ==
    IF ~idx.changed THEN release(g, "index")
    ELSE WriteChunks(g, "index", IndexChunks(idx.entries))

\* Index::write_updates
write_updates(g, idx) ==
    IF ~idx.changed THEN release(g, "index")
    ELSE commit(WriteChunks(g, "index", IndexChunks(idx.entries)), "index")

\* the entries of an index file, as Index::load reads them
DiskEntries(file) ==
    IF file.exists THEN {file.data[i].e : i \in 2..(Len(file.data) - 1)} ELSE {}

(***************************************************************************)
(* Index::apply_migration (src/src/index.rs) and the checkout command      *)
(* (src/src/commands/checkout.rs).                                         *)
(***************************************************************************)
\* Workspace::stat_file then Entry::mode: the normalised mode, or an error
stat_file(f, path) ==
    LET p == workspace_path(path)
    IN IF Kind(f, p) = "none" THEN [ok |-> FALSE, mode |-> "100644"]
       ELSE IF Kind(f, p) = "dir" THEN [ok |-> TRUE, mode |-> "100755"]
       ELSE [ok |-> TRUE, mode |-> IF f.files[p].exec THEN "100755" ELSE "100644"]

RECURSIVE RemovePaths(_, _)
RemovePaths(idx, order) ==
    IF order = <<>> THEN idx
    ELSE RemovePaths(remove(idx, Head(order)), Tail(order))

RECURSIVE apply_updates(_, _, _, _)
\* [ok, idx]: the list in the order given, stopping at the first stat error
apply_updates(idx, list, order, f) ==
    IF order = <<>> THEN [ok |-> TRUE, idx |-> idx]
    ELSE LET path == Head(order)
             entry == list[path]
         IN IF entry = NoneV THEN apply_updates(idx, list, Tail(order), f)
            ELSE LET st == stat_file(f, path)
                 IN IF ~st.ok THEN [ok |-> FALSE, idx |-> idx]
                    ELSE apply_updates(add(idx, path, entry.oid, st.mode),
                                       list, Tail(order), f)

\* Index::apply_migration
index_apply_migration(idx, changes, f) ==
    LET i1 == RemovePaths(idx, SortedPaths(DOMAIN changes.Remove))
        r1 == apply_updates(i1, changes.Create, SortedPaths(DOMAIN changes.Create), f)
    IN IF ~r1.ok THEN r1
       ELSE apply_updates(r1.idx, changes.Update, SortedPaths(DOMAIN changes.Update), f)

\* Tree::build: the flattened tree of the entries of an index
IndexTree(es) == {[path |-> e.path, oid |-> e.oid, mode |-> e.mode] : e \in es}

\* the index of a tree: one entry per leaf
IndexOf(t) == {Entry(e.path, e.oid, e.mode) : e \in t}

\* the workspace holding the files of tree t, and the object database
GitDirs == {<<>>, <<".git">>, <<".git", "objects">>, <<".git", "objects", "ab">>}

ObjectFile == <<".git", "objects", "ab", "cd">>

\* the directories holding the leaves of tree t, beneath `under'
ParentDirsOf(t, under) ==
    UNION {{under \o SubSeq(e.path, 1, k) : k \in 1..(Len(e.path) - 1)} : e \in t}

FileOf(e) == [data |-> e.oid, exec |-> e.mode = "100755"]

WorkspaceOf(t) ==
    [files |-> [p \in {e.path : e \in t} \cup {ObjectFile} |->
                    IF p = ObjectFile THEN [data |-> 0, exec |-> FALSE]
                    ELSE FileOf(CHOOSE e \in t : e.path = p)],
     dirs |-> GitDirs \cup ParentDirsOf(t, <<>>)]

\* the same, with a copy of the files beneath the object database directory
WorkspaceWithCopy(t) ==
    LET w == WorkspaceOf(t)
        under == Resolve(DbPath)
        copy == {under \o e.path : e \in t}
    IN [files |-> [p \in DOMAIN w.files \cup copy |->
                    IF p \in DOMAIN w.files THEN w.files[p]
                    ELSE FileOf(CHOOSE e \in t : under \o e.path = p)],
        dirs |-> w.dirs \cup ParentDirsOf(t, under)]

NoTodo == [Remove |-> {}, rmdir |-> <<>>, mkdir |-> <<>>, Create |-> {}, Update |-> {}]

TodoOf(m) ==
    [Remove |-> DOMAIN m.changes.Remove,
     rmdir |-> rmdir_steps(m),
     mkdir |-> mkdir_steps(m),
     Create |-> DOMAIN m.changes.Create,
     Update |-> DOMAIN m.changes.Update]

HasWork(t, ph) == IF ph \in {"rmdir", "mkdir"} THEN t[ph] # <<>> ELSE t[ph] # {}

WorkLeft(t) == \E i \in 1..Len(MigrationPhases) : HasWork(t, MigrationPhases[i])

\* the phase apply_migration is in: the first with work left
CurrentPhase(t) ==
    MigrationPhases[CHOOSE i \in 1..Len(MigrationPhases) :
        /\ HasWork(t, MigrationPhases[i])
        /\ \A j \in 1..(i - 1) : ~HasWork(t, MigrationPhases[j])]

InitCheckout ==
    /\ treeA \in TreeOids
    /\ treeB \in TreeOids
    /\ fs \in {WorkspaceOf(treeA), WorkspaceWithCopy(treeA)}
    /\ gitfs = [f \in GitFiles |->
                  IF f = GitFile("index", FALSE)
                  THEN File(IndexChunks(IndexOf(treeA)))
                  ELSE Absent]
    /\ pc = "start"
    /\ index = EmptyIndex
    /\ migration = <<>> /\ todo = NoTodo /\ log = <<>> /\ result = "none"
    /\ rev \in {[res |-> "Ok"], [res |-> "Err"]}
    /\ rev.res = "Err" => treeB = {}
    /\ nops = 0 /\ lastOp = NoOp /\ procs = <<>> /\ objects = {} /\ myers = <<>> /\ hunk = <<>> /\ ixfile = <<>> /\ status = <<>>

\* rr.resolver(ObjectKind::Commit) gave the commit of treeB, or an error:
\* `let branch_oid = if let Err(e) = res { ...; None } else { res.ok() }`
branch_oid == IF rev.res = "Ok" THEN SomeOid(treeB) ELSE NoOid

\* Repository::new: Index::from takes the index lock and loads .git/index
CheckoutOpen ==
    /\ pc = "start"
    /\ LET r == try_lock(gitfs, "index")
       IN /\ r.ok
          /\ gitfs' = r.g
    /\ index' = load(DiskEntries(gitfs[GitFile("index", FALSE)]))
    /\ pc' = "plan"
    /\ UNCHANGED <<fs, treeA, treeB, migration, todo, log, result, nops, lastOp, procs, objects, myers, hunk, ixfile, status, rev>>

\* rr.resolver, refs.get_head(), database.tree_diff(head, branch_oid), then
\* migration(tree_diff).plan_changes()
CheckoutPlan ==
    /\ pc = "plan"
    /\ LET diff == tree_diff(SomeOid(treeA), branch_oid)
           m == plan_changes(diff)
       IN /\ migration' = [diff |-> diff, rmdirs |-> m.rmdirs, mkdirs |-> m.mkdirs,
                           changes |-> m.changes]
          /\ todo' = TodoOf(m)
    /\ pc' = "workspace"
    /\ UNCHANGED <<fs, gitfs, index, treeA, treeB, log, result, nops, lastOp, procs, objects, myers, hunk, ixfile, status, rev>>

\* one file-system step of Workspace::apply_migration; an error ends it
WorkspaceStep ==
    /\ pc = "workspace"
    /\ WorkLeft(todo)
    /\ LET ph == CurrentPhase(todo)
       IN IF ph \in {"rmdir", "mkdir"}
          THEN LET path == Head(todo[ph]).path
                   r == IF ph = "rmdir" THEN remove_dir(fs, path) ELSE create_dir(fs, path)
               IN /\ fs' = r.fs
                  /\ log' = Append(log, [kind |-> ph, path |-> path, ok |-> r.ok])
                  /\ todo' = [todo EXCEPT ![ph] = Tail(@)]
                  /\ result' = IF r.ok THEN result ELSE "error"
                  /\ pc' = IF r.ok THEN pc ELSE "commit"
          ELSE \E path \in todo[ph] :
               LET r == apply_change(fs, ph, path, migration.changes[ph][path])
               IN /\ fs' = r.fs
                  /\ log' = Append(log, [kind |-> ph, path |-> path, ok |-> r.ok])
                  /\ todo' = [todo EXCEPT ![ph] = @ \ {path}]
                  /\ result' = IF r.panic THEN "panic" ELSE IF r.ok THEN result ELSE "error"
                  /\ pc' = IF r.panic THEN "panicked" ELSE IF r.ok THEN pc ELSE "commit"
    /\ UNCHANGED <<gitfs, index, treeA, treeB, migration, nops, lastOp, procs, objects, myers, hunk, ixfile, status, rev>>

\* Repository::apply_migration goes on to Index::apply_migration
IndexApply ==
    /\ pc = "workspace"
    /\ ~WorkLeft(todo)
    /\ LET r == index_apply_migration(index, migration.changes, fs)
       IN /\ index' = r.idx
          /\ result' = IF r.ok THEN "ok" ELSE "error"
    /\ pc' = "commit"
    /\ UNCHANGED <<gitfs, fs, treeA, treeB, migration, todo, log, nops, lastOp, procs, objects, myers, hunk, ixfile, status, rev>>

\* repository.commit_changes(): Index::write_updates
CommitChanges ==
    /\ pc = "commit"
    /\ gitfs' = write_updates(gitfs, index)
    /\ pc' = "done"
    /\ UNCHANGED <<fs, index, treeA, treeB, migration, todo, log, result, nops, lastOp, procs, objects, myers, hunk, ixfile, status, rev>>

NextCheckout == CheckoutOpen \/ CheckoutPlan \/ WorkspaceStep \/ IndexApply \/ CommitChanges

SpecCheckout == InitCheckout /\ [][NextCheckout]_vars

(***************************************************************************)
(* The commands side by side.  Each invocation is [cmd, pc, idx, held,     *)
(* ref, out]: idx its Index, held the targets of the Lockfile objects it   *)
(* has, ref the ref file it writes, out the chunks it has still to write.  *)
(* Every command opens the index first (Index::from); the object database  *)
(* is left out.  An invocation can be terminated at any step.              *)
(***************************************************************************)
Procs == {1, 2}

Commands == {"add", "commit", "branch", "checkout"}

Branch == "refs/heads/b"

OidChunk(o) == [t |-> "oid", oid |-> o]

NewlineChunk == [t |-> "nl"]

\* what update_ref_file writes: the oid, then "\n"
RefChunks(o) == <<OidChunk(o), NewlineChunk>>

AddPaths == {<<"a">>, <<"b", "a">>}

InitialIndexes == {Absent, File(IndexChunks({Entry(<<"a">>, 1, "100644")}))}

\* the objects: a blob by its data, a tree by its flattened entries, a commit
\* by its tree, its parent commit (if any) and its author line
BlobObject(data) == [kind |-> "blob", data |-> data]

TreeObject(t) == [kind |-> "tree", entries |-> t]

CommitObject(parent, t, author) ==
    [kind |-> "commit", tree |-> t, parent |-> parent, author |-> author]

InitialTree == {Leaf(<<"a">>, [oid |-> 1, mode |-> "100644"])}

InitialCommit == CommitObject(NoneV, InitialTree, 0)

InitialObjects == {BlobObject(1), TreeObject(InitialTree), InitialCommit}

InitialHeads == {Absent, File(RefChunks(InitialCommit))}

\* what a get_head that finds nothing would give
get_head_none(g) == NoneV

\* Refs::get_head: the oid in .git/HEAD, None when the file is not there
get_head(g) ==
    LET head == g[GitFile("HEAD", FALSE)]
    IN IF head.exists /\ Len(head.data) > 0 /\ head.data[1].t = "oid"
       THEN head.data[1].oid ELSE NoneV

\* nothing staged yet
NoStaged == [path |-> <<>>, oid |-> 0]

Fresh(cmd) ==
    [cmd |-> cmd, pc |-> "start", idx |-> EmptyIndex, held |-> {},
     ref |-> IF cmd = "commit" THEN "HEAD" ELSE Branch, out |-> <<>>,
     staged |-> NoStaged, commit |-> NoneV]

LockOp(op, p, file) == [op |-> op, proc |-> p, file |-> file]

Running(p) == procs[p].pc \notin {"done", "exited", "panicked", "failed", "ended"}

InitLock ==
    /\ procs \in [Procs -> {Fresh(c) : c \in Commands}]
    /\ \E i \in InitialIndexes, h \in InitialHeads :
          gitfs = [f \in GitFiles |->
                     IF f = GitFile("index", FALSE) THEN i
                     ELSE IF f = GitFile("HEAD", FALSE) THEN h
                     ELSE Absent]
    /\ objects = InitialObjects
    /\ lastOp = NoOp
    /\ index = EmptyIndex /\ nops = 0 /\ myers = <<>> /\ hunk = <<>> /\ ixfile = <<>> /\ status = <<>> /\ rev = <<>>
    /\ fs = <<>> /\ treeA = {} /\ treeB = {} /\ pc = "unused"
    /\ migration = <<>> /\ todo = <<>> /\ log = <<>> /\ result = "unused"

UnchangedByLock ==
    UNCHANGED <<index, fs, treeA, treeB, pc, migration, todo, log, result, myers, hunk, ixfile, status, rev>>

\* Index::from: try_lock on .git/index (a panic when the lock exists), load
OpenIndex(p) ==
    /\ procs[p].pc = "start"
    /\ LET r == try_lock(gitfs, "index")
           c == procs[p].cmd
       IN /\ gitfs' = r.g
          /\ procs' = [procs EXCEPT ![p] =
                IF ~r.ok THEN [@ EXCEPT !.pc = "panicked"]
                ELSE [@ EXCEPT !.held = @ \cup {"index"},
                               !.idx = load(DiskEntries(gitfs[GitFile("index", FALSE)])),
                               !.pc = CASE c = "add" -> "add"
                                        [] c = "commit" -> "store_tree"
                                        [] c = "branch" -> "branch"
                                        [] OTHER -> "write_index"]]
    /\ lastOp' = LockOp("try_lock", p, "index")
    /\ UNCHANGED <<nops, objects>>
    /\ UnchangedByLock

\* git_add: db.store(blob), then index.add; the path was the last one
\* (write_index) or another path follows it (add_more)
AddFiles(p) ==
    /\ procs[p].pc = "add"
    /\ \E path \in AddPaths, o \in Oids, next \in {"write_index", "add_more"} :
          procs' = [procs EXCEPT ![p].idx = add(@, path, o, "100644"),
                                 ![p].staged = [path |-> path, oid |-> o],
                                 ![p].pc = next]
    /\ objects' = objects \cup {BlobObject(procs'[p].staged.oid)}
    /\ lastOp' = LockOp("add", p, "index")
    /\ UNCHANGED <<gitfs, nops>>
    /\ UnchangedByLock

\* git_add: a pathspec, the first or a later one, that matches nothing:
\* release_lock and exit(128)
AddNoMatch(p) ==
    /\ procs[p].pc \in {"add", "add_more"}
    /\ gitfs' = release(gitfs, "index")
    /\ procs' = [procs EXCEPT ![p].held = @ \ {"index"}, ![p].pc = "exited"]
    /\ lastOp' = LockOp("release", p, "index")
    /\ UNCHANGED <<nops, objects>>
    /\ UnchangedByLock

\* branch: create_branch when HEAD has an oid and the branch is not there
BranchStart(p) ==
    /\ procs[p].pc = "branch"
    /\ LET there == gitfs[GitFile(Branch, FALSE)].exists
       IN procs' = [procs EXCEPT ![p].pc =
                       IF get_head(gitfs) # NoneV /\ ~there THEN "lock_ref" ELSE "write_index"]
    /\ lastOp' = LockOp("read", p, "HEAD")
    /\ UNCHANGED gitfs
    /\ UNCHANGED <<nops, objects>>
    /\ UnchangedByLock

RECURSIVE traverse(_)
\* Tree::traverse: the subtrees in post-order, the tree itself last
traverse(t) ==
    LET RECURSIVE Sub(_)
        Sub(names) ==
            IF names = {} THEN <<>>
            ELSE LET n == CHOOSE x \in names : TRUE
                 IN traverse(Subtree(t, n)) \o Sub(names \ {n})
    IN Sub({n \in TreeNames(t) : Subtree(t, n) # {}}) \o <<TreeObject(t)>>

\* commit: root.traverse(db.store), one tree at a time
StoreTree(p) ==
    /\ procs[p].pc = "store_tree"
    /\ LET root == IndexTree(procs[p].idx.entries)
           order == traverse(root)
           k == Len(procs[p].out) + 1
       IN /\ objects' = objects \cup {order[k]}
          /\ procs' = [procs EXCEPT ![p].out = IF k = Len(order) THEN <<>> ELSE Append(@, order[k]),
                                    ![p].pc = IF k = Len(order) THEN "read_head" ELSE @]
    /\ lastOp' = LockOp("store", p, "objects")
    /\ UNCHANGED <<gitfs, nops>>
    /\ UnchangedByLock

\* commit: parent = refs.get_head(), Commit::new(parent, root.oid(), author, message)
ReadHead(p) ==
    /\ procs[p].pc = "read_head"
    /\ procs' = [procs EXCEPT
          ![p].commit = CommitObject(get_head(gitfs), IndexTree(procs[p].idx.entries), p),
          ![p].pc = "lock_ref"]
    /\ lastOp' = LockOp("read", p, "HEAD")
    /\ UNCHANGED <<gitfs, nops, objects>>
    /\ UnchangedByLock

\* the oid an invocation writes: its new commit, or the one HEAD names
RefOid(p) == IF procs[p].cmd = "commit" THEN procs[p].commit ELSE get_head(gitfs)

\* update_ref_file: try_lock on the ref file
LockRef(p) ==
    /\ procs[p].pc = "lock_ref"
    /\ LET r == try_lock(gitfs, procs[p].ref)
       IN /\ gitfs' = r.g
          /\ procs' = [procs EXCEPT ![p] =
                IF ~r.ok THEN [@ EXCEPT !.pc = "panicked"]
                ELSE [@ EXCEPT !.held = @ \cup {procs[p].ref},
                               !.out = RefChunks(RefOid(p)),
                               !.pc = "write_ref"]]
    /\ lastOp' = LockOp("try_lock", p, procs[p].ref)
    /\ UNCHANGED <<nops, objects>>
    /\ UnchangedByLock

\* update_ref_file: one write_all
WriteRef(p) ==
    /\ procs[p].pc = "write_ref"
    /\ procs[p].out # <<>>
    /\ gitfs' = write_all(gitfs, procs[p].ref, Head(procs[p].out))
    /\ procs' = [procs EXCEPT ![p].out = Tail(@)]
    /\ lastOp' = LockOp("write", p, procs[p].ref)
    /\ UNCHANGED <<nops, objects>>
    /\ UnchangedByLock

\* update_ref_file: lock.commit()
CommitRef(p) ==
    /\ procs[p].pc = "write_ref"
    /\ procs[p].out = <<>>
    /\ gitfs' = commit(gitfs, procs[p].ref)
    /\ procs' = [procs EXCEPT ![p].held = @ \ {procs[p].ref},
                              ![p].pc = IF procs[p].cmd = "commit"
                                        THEN "store_commit" ELSE "write_index"]
    /\ nops' = IF procs[p].ref = "HEAD" THEN nops + 1 ELSE nops
    /\ lastOp' = LockOp("commit", p, procs[p].ref)
    /\ UNCHANGED objects
    /\ UnchangedByLock

\* commit: db.store(commit), after update_head
StoreCommit(p) ==
    /\ procs[p].pc = "store_commit"
    /\ objects' = objects \cup {procs[p].commit}
    /\ procs' = [procs EXCEPT ![p].pc = "release_index"]
    /\ lastOp' = LockOp("store", p, "objects")
    /\ UNCHANGED <<gitfs, nops>>
    /\ UnchangedByLock

\* commit: index.release_lock()
ReleaseIndex(p) ==
    /\ procs[p].pc = "release_index"
    /\ gitfs' = release(gitfs, "index")
    /\ procs' = [procs EXCEPT ![p].held = @ \ {"index"}, ![p].pc = "done"]
    /\ lastOp' = LockOp("release", p, "index")
    /\ UNCHANGED <<nops, objects>>
    /\ UnchangedByLock

\* Index::write_updates, up to its first file-system call: the release of an
\* unchanged index, or the write of the header
WriteIndexStart(p) ==
    /\ procs[p].pc = "write_index"
    /\ IF ~procs[p].idx.changed
       THEN /\ gitfs' = release(gitfs, "index")
            /\ procs' = [procs EXCEPT ![p].held = @ \ {"index"}, ![p].pc = "done"]
            /\ lastOp' = LockOp("release", p, "index")
       ELSE LET chunks == IndexChunks(procs[p].idx.entries)
            IN /\ gitfs' = write_all(gitfs, "index", Head(chunks))
               /\ procs' = [procs EXCEPT ![p].out = Tail(chunks), ![p].pc = "writing"]
               /\ lastOp' = LockOp("write", p, "index")
    /\ UNCHANGED <<nops, objects>>
    /\ UnchangedByLock

\* Index::write_updates: the next write_all
WriteIndexChunk(p) ==
    /\ procs[p].pc = "writing"
    /\ procs[p].out # <<>>
    /\ gitfs' = write_all(gitfs, "index", Head(procs[p].out))
    /\ procs' = [procs EXCEPT ![p].out = Tail(@)]
    /\ lastOp' = LockOp("write", p, "index")
    /\ UNCHANGED <<nops, objects>>
    /\ UnchangedByLock

\* Index::write_updates: lock.commit()
CommitIndex(p) ==
    /\ procs[p].pc = "writing"
    /\ procs[p].out = <<>>
    /\ gitfs' = commit(gitfs, "index")
    /\ procs' = [procs EXCEPT ![p].held = @ \ {"index"}, ![p].pc = "done"]
    /\ lastOp' = LockOp("commit", p, "index")
    /\ UNCHANGED <<nops, objects>>
    /\ UnchangedByLock

\* an error returned with `?' while the index is open: read_file in git_add,
\* std::env::var in commit; Lockfile has no Drop, the function just returns
ErrorReturn(p) ==
    /\ \/ procs[p].pc \in {"add", "add_more"}
       \/ procs[p].pc = "read_head"
    /\ procs' = [procs EXCEPT ![p].pc = "failed"]
    /\ lastOp' = LockOp("error", p, "none")
    /\ UNCHANGED gitfs
    /\ UNCHANGED <<nops, objects>>
    /\ UnchangedByLock

\* the process is terminated where it is; its files stay
Terminate(p) ==
    /\ Running(p)
    /\ procs' = [procs EXCEPT ![p].pc = "ended"]
    /\ lastOp' = LockOp("end", p, "none")
    /\ UNCHANGED gitfs
    /\ UNCHANGED <<nops, objects>>
    /\ UnchangedByLock

NextLock ==
    \E p \in Procs :
        \/ OpenIndex(p)
        \/ AddFiles(p)
        \/ AddNoMatch(p)
        \/ BranchStart(p)
        \/ LockRef(p)
        \/ WriteRef(p)
        \/ CommitRef(p)
        \/ ReleaseIndex(p)
        \/ WriteIndexStart(p)
        \/ WriteIndexChunk(p)
        \/ CommitIndex(p)
        \/ ErrorReturn(p)
        \/ StoreTree(p)
        \/ ReadHead(p)
        \/ StoreCommit(p)
        \/ Terminate(p)

SpecLock == InitLock /\ [][NextLock]_vars

(***************************************************************************)
(* The object database (src/src/database.rs).  An object is [kind, body],  *)
(* body a sequence of bytes; its file holds the deflated serialization.    *)
(* The files are those of fs, beneath .git/objects.                        *)
(***************************************************************************)
MaxChunk == 2

StoreObjectSeq ==
    << [kind |-> "blob", body |-> <<>>],
       [kind |-> "blob", body |-> <<"x", "x">>],
       [kind |-> "tree", body |-> <<" ", "NUL", "x">>],
       [kind |-> "commit", body |-> <<"1", "NUL">>] >>

StoreObjects == {StoreObjectSeq[i] : i \in 1..Len(StoreObjectSeq)}

\* the hex digests, as (first two characters, the rest)
DigestSeq == << <<"aa", "01">>, <<"aa", "02">>, <<"bb", "03">>, <<"bb", "04">> >>

KindBytes(k) ==
    CASE k = "blob" -> <<"b", "l", "o", "b">>
      [] k = "tree" -> <<"t", "r", "e", "e">>
      [] k = "commit" -> <<"c", "o", "m", "m", "i", "t">>

DigitSeq == <<"0", "1", "2", "3", "4", "5", "6", "7", "8", "9">>

RECURSIVE Decimal(_)
\* format!("{}", n)
Decimal(n) ==
    IF n < 10 THEN <<DigitSeq[n + 1]>>
    ELSE Decimal(n \div 10) \o <<DigitSeq[(n % 10) + 1]>>

\* Storable::serialize: "<kind> <size>\0<body>"
serialize(x) == KindBytes(x.kind) \o <<" ">> \o Decimal(Len(x.body)) \o <<"NUL">> \o x.body

\* Storable::oid: the SHA-1 of the serialization, without collisions
oid(x) == DigestSeq[CHOOSE i \in 1..Len(StoreObjectSeq) : serialize(StoreObjectSeq[i]) = serialize(x)]

\* Database::object_path: (dir, path)
object_path(o) == [dir |-> DbPath \o <<o[1]>>, path |-> DbPath \o <<o[1], o[2]>>]

RECURSIVE Deflate(_)
\* ZlibEncoder, as a run-length code: (byte, length of the run)
Deflate(s) ==
    IF s = <<>> THEN <<>>
    ELSE LET n == CHOOSE k \in 1..Len(s) :
                    /\ \A i \in 1..k : s[i] = s[1]
                    /\ k = Len(s) \/ s[k + 1] # s[1]
         IN <<[byte |-> s[1], run |-> n]>> \o Deflate(SubSeq(s, n + 1, Len(s)))

RECURSIVE Inflate(_)
\* ZlibDecoder
Inflate(z) ==
    IF z = <<>> THEN <<>>
    ELSE [i \in 1..Head(z).run |-> Head(z).byte] \o Inflate(Tail(z))

\* a reader that runs on to the last delimiter
ReadUntilLast(s, delim) ==
    IF \E i \in 1..Len(s) : s[i] = delim
    THEN LET k == CHOOSE i \in 1..Len(s) : s[i] = delim /\ \A j \in (i + 1)..Len(s) : s[j] # delim
         IN [read |-> SubSeq(s, 1, k - 1), rest |-> SubSeq(s, k + 1, Len(s))]
    ELSE [read |-> s, rest |-> <<>>]

\* BufRead::read_until: the bytes up to the first delimiter (which
\* read_object trims) and what follows it; everything when there is none
ReadUntil(s, delim) ==
    IF \E i \in 1..Len(s) : s[i] = delim
    THEN LET k == CHOOSE i \in 1..Len(s) : s[i] = delim /\ \A j \in 1..(i - 1) : s[j] # delim
         IN [read |-> SubSeq(s, 1, k - 1), rest |-> SubSeq(s, k + 1, Len(s))]
    ELSE [read |-> s, rest |-> <<>>]

\* ObjectKind::parse
ParseKind(tp) ==
    IF tp = KindBytes("commit") THEN "commit"
    ELSE IF tp = KindBytes("tree") THEN "tree"
    ELSE "blob"

DigitValue(d) == (CHOOSE i \in 1..10 : DigitSeq[i] = d) - 1

RECURSIVE ParseU64(_)
\* str::parse::<u64>
ParseU64(ds) ==
    IF Len(ds) = 1 THEN DigitValue(ds[1])
    ELSE ParseU64(SubSeq(ds, 1, Len(ds) - 1)) * 10 + DigitValue(ds[Len(ds)])

IsNumber(ds) == ds # <<>> /\ \A i \in 1..Len(ds) : \E j \in 1..10 : DigitSeq[j] = ds[i]

\* Database::read_object
read_object(f, o) ==
    LET path == Resolve(object_path(o).path)
    IN IF Kind(f, path) # "file" THEN [ok |-> FALSE]
       ELSE LET out == Inflate(f.files[path].data)
                tp == ReadUntil(out, " ")
                size == ReadUntil(tp.rest, "NUL")
            IN IF ~IsNumber(size.read) THEN [ok |-> FALSE]
               ELSE [ok |-> TRUE, kind |-> ParseKind(tp.read),
                     size |-> ParseU64(size.read), body |-> size.rest]

\* the uuid of a call: no two calls draw the same
TempNameShared(p) == "tmp"

TempName(p) == IF p = 1 THEN "tmp1" ELSE "tmp2"

TempPath(p, o) == Resolve(object_path(o).dir) \o <<TempName(p)>>

Storer(x) == [x |-> x, pc |-> "check", got |-> [ok |-> FALSE]]

CompleteFile(x) == [data |-> Deflate(serialize(x)), exec |-> FALSE]

\* .git/objects, with the object file of x when there is one already
StoreFs(present) ==
    [files |-> [p \in {Resolve(object_path(oid(x)).path) : x \in present} |->
                  CompleteFile(CHOOSE x \in present : Resolve(object_path(oid(x)).path) = p)],
     dirs |-> {<<>>, <<".git">>, Resolve(DbPath)}
              \cup {Resolve(object_path(oid(x)).dir) : x \in present}]

InitStore ==
    /\ procs \in [Procs -> {Storer(x) : x \in StoreObjects}]
    /\ fs \in {StoreFs({}), StoreFs({StoreObjectSeq[1]})}
    /\ lastOp = NoOp
    /\ index = EmptyIndex /\ nops = 0 /\ gitfs = <<>> /\ objects = {} /\ myers = <<>> /\ hunk = <<>> /\ ixfile = <<>> /\ status = <<>> /\ rev = <<>>
    /\ treeA = {} /\ treeB = {} /\ pc = "unused"
    /\ migration = <<>> /\ todo = <<>> /\ log = <<>> /\ result = "unused"

UnchangedByStore ==
    UNCHANGED <<index, nops, gitfs, objects, treeA, treeB, pc, migration, todo, log, result, myers, hunk, ixfile, status, rev>>

Target(p) == Resolve(object_path(oid(procs[p].x)).path)

\* Database::write: if path.exists() return Ok(())
StoreCheck(p) ==
    /\ procs[p].pc = "check"
    /\ procs' = [procs EXCEPT ![p].pc =
                    IF Kind(fs, Target(p)) # "none" THEN "done" ELSE "mkdir"]
    /\ lastOp' = LockOp("exists", p, "objects")
    /\ UNCHANGED fs
    /\ UnchangedByStore

\* std::fs::create_dir_all(dir): Ok when the directory is there
StoreMkdir(p) ==
    /\ procs[p].pc = "mkdir"
    /\ fs' = [fs EXCEPT !.dirs = @ \cup {Parent(Target(p))}]
    /\ procs' = [procs EXCEPT ![p].pc = "create"]
    /\ lastOp' = LockOp("mkdir", p, "objects")
    /\ UnchangedByStore

\* OpenOptions create_new on the temporary name
StoreCreate(p) ==
    /\ procs[p].pc = "create"
    /\ LET r == FsCreateNew(fs, TempPath(p, oid(procs[p].x)), <<>>, "100644")
       IN /\ fs' = r.fs
          /\ procs' = [procs EXCEPT ![p].pc = IF r.ok THEN "write" ELSE "failed"]
    /\ lastOp' = LockOp("create", p, "objects")
    /\ UnchangedByStore

\* file.write_all: at most MaxChunk bytes reach the file at a time
StoreWrite(p) ==
    /\ procs[p].pc = "write"
    /\ LET tmp == TempPath(p, oid(procs[p].x))
           all == Deflate(serialize(procs[p].x))
           have == Len(fs.files[tmp].data)
           upto == IF have + MaxChunk < Len(all) THEN have + MaxChunk ELSE Len(all)
       IN /\ have < Len(all)
          /\ fs' = [fs EXCEPT !.files[tmp].data = @ \o SubSeq(all, have + 1, upto)]
    /\ lastOp' = LockOp("write", p, "objects")
    /\ UNCHANGED procs
    /\ UnchangedByStore

\* drop(file); std::fs::rename(tmpnam, path)
StoreRename(p) ==
    /\ procs[p].pc = "write"
    /\ LET tmp == TempPath(p, oid(procs[p].x))
       IN /\ Len(fs.files[tmp].data) = Len(Deflate(serialize(procs[p].x)))
          /\ fs' = [fs EXCEPT !.files =
                      [q \in (DOMAIN @ \ {tmp}) \cup {Target(p)} |->
                          IF q = Target(p) THEN fs.files[tmp] ELSE fs.files[q]]]
    /\ procs' = [procs EXCEPT ![p].pc = "done"]
    /\ lastOp' = LockOp("rename", p, "objects")
    /\ UnchangedByStore

\* Database::read_object of the oid stored
StoreRead(p) ==
    /\ procs[p].pc = "done"
    /\ procs' = [procs EXCEPT ![p].got = read_object(fs, oid(procs[p].x)), ![p].pc = "read"]
    /\ lastOp' = LockOp("read", p, "objects")
    /\ UNCHANGED fs
    /\ UnchangedByStore

NextStore ==
    \E p \in Procs :
        \/ StoreCheck(p)
        \/ StoreMkdir(p)
        \/ StoreCreate(p)
        \/ StoreWrite(p)
        \/ StoreRename(p)
        \/ StoreRead(p)

SpecStore == InitStore /\ [][NextStore]_vars

(***************************************************************************)
(* The Myers diff (src/src/diff).  Line x of the source, counted from 0,   *)
(* is element x + 1 of a sequence here.                                    *)
(***************************************************************************)
MaxLines == 3

Contents == {"p", "q"}

LineTexts == UNION {[1..n -> Contents] : n \in 0..MaxLines}

\* Option<isize>
NoneX == [some |-> FALSE, x |-> 0]

Some(x) == [some |-> TRUE, x |-> x]

\* the derived PartialOrd of Option: None is below every Some
OptLess(p, q) == IF p.some THEN q.some /\ p.x < q.x ELSE q.some

\* Option<Line>
NoLine == [some |-> FALSE]

SomeLine(l) == [some |-> TRUE, content |-> l.content, number |-> l.number]

\* Myers::from: the lines of each text, numbered from 0
MyersFrom(ta, tb) ==
    [a |-> [i \in 1..Len(ta) |-> [content |-> ta[i], number |-> i - 1]],
     b |-> [i \in 1..Len(tb) |-> [content |-> tb[i], number |-> i - 1]]]

\* MyersGraph::new
MyersGraphNew(max) == [array |-> [i \in 0..(2 * max) |-> NoneX], max |-> max]

\* whether index i falls inside the array: the asserts of Index, the bounds
\* check of the Vec in IndexMut
InGraph(v, i) == (i + v.max) \in DOMAIN v.array

At(v, i) == v.array[i + v.max]

Put(v, i, x) == [v EXCEPT !.array[i + v.max] = Some(x)]

RECURSIVE SnakeLen(_, _, _, _)
\* the diagonal move: the number of equal lines from (x, y) on
SnakeLen(a, b, x, y) ==
    IF x < Len(a) /\ y < Len(b) /\ a[x + 1].content = b[y + 1].content
    THEN 1 + SnakeLen(a, b, x + 1, y + 1)
    ELSE 0

\* the entries of V that the choice between k - 1 and k + 1 reads
StepReads(d, k) ==
    IF k = -d THEN {k + 1} ELSE IF k # d THEN {k - 1, k + 1} ELSE {k - 1}

GoesDown(v, d, k) == k = -d \/ (k # d /\ OptLess(At(v, k - 1), At(v, k + 1)))

StepPanic(v) == [panic |-> TRUE, v |-> v, completed |-> FALSE]

\* Myers::shortest_edit_step
shortest_edit_step(a, b, v, d, k) ==
    IF \E i \in StepReads(d, k) \cup {k} : ~InGraph(v, i) THEN StepPanic(v)
    ELSE LET opt_x == IF GoesDown(v, d, k) THEN At(v, k + 1)
                      ELSE IF At(v, k - 1).some THEN Some(At(v, k - 1).x + 1)
                      ELSE NoneX
             x0 == IF opt_x.some THEN opt_x.x ELSE 0
             y0 == IF opt_x.some THEN opt_x.x - k ELSE 0
         IN IF x0 < Len(a) /\ y0 < Len(b) /\ (x0 < 0 \/ y0 < 0) THEN StepPanic(v)
            ELSE LET s == SnakeLen(a, b, x0, y0)
                 IN [panic |-> FALSE, v |-> Put(v, k, x0 + s),
                     completed |-> (x0 + s >= Len(a) /\ y0 + s >= Len(b))]

TracePanic == [panic |-> TRUE, trace |-> <<>>]

RECURSIVE EditRounds(_, _, _, _, _)
RECURSIVE EditRound(_, _, _, _, _, _)
\* the loop "for d in 1..=max" of shortest_edit
EditRounds(a, b, v, trace, d) ==
    IF d > Len(a) + Len(b) THEN [panic |-> FALSE, trace |-> trace]
    ELSE EditRound(a, b, v, Append(trace, v), d, -d)

\* the loop "for k in (-d..=d).step_by(2)"
EditRound(a, b, v, trace, d, k) ==
    IF k > d THEN EditRounds(a, b, v, trace, d + 1)
    ELSE LET r == shortest_edit_step(a, b, v, d, k)
         IN IF r.panic THEN TracePanic
            ELSE IF r.completed THEN [panic |-> FALSE, trace |-> trace]
            ELSE EditRound(a, b, r.v, trace, d, k + 2)

\* Myers::shortest_edit
shortest_edit(a, b) ==
    LET v0 == MyersGraphNew(Len(a) + Len(b))
    IN IF ~InGraph(v0, 1) THEN TracePanic
       ELSE LET v == Put(v0, 1, 0)
                r == shortest_edit_step(a, b, v, 0, 0)
            IN IF r.panic THEN TracePanic
               ELSE IF r.completed THEN [panic |-> FALSE, trace |-> <<v>>]
               ELSE EditRounds(a, b, r.v, <<v>>, 1)

Move(px, py, x, y) == [prev_x |-> px, prev_y |-> py, x |-> x, y |-> y]

RECURSIVE Diagonal(_, _, _, _)
\* while x > prev_x && y > prev_y: the moves pushed, last pushed last
Diagonal(x, y, px, py) ==
    IF x > px /\ y > py
    THEN <<Move(x - 1, y - 1, x, y)>> \o Diagonal(x - 1, y - 1, px, py)
    ELSE <<>>

MovesPanic == [panic |-> TRUE, moves |-> <<>>]

RECURSIVE BacktrackFrom(_, _, _, _, _)
\* the loop of backtrack over the trace, last snapshot first; d counts from 0
BacktrackFrom(trace, d, x, y, ret) ==
    IF d < 0 THEN [panic |-> FALSE, moves |-> ret]
    ELSE LET v == trace[d + 1]
             k == x - y
             reads == IF k = -d \/ k = d THEN {} ELSE {k - 1, k + 1}
         IN IF \E i \in reads : ~InGraph(v, i) THEN MovesPanic
            ELSE LET prev_k == IF GoesDown(v, d, k) THEN k + 1 ELSE k - 1
                 IN IF ~InGraph(v, prev_k) THEN MovesPanic
                    ELSE IF ~At(v, prev_k).some THEN MovesPanic
                    ELSE LET prev_x == At(v, prev_k).x
                             prev_y == prev_x - prev_k
                             diag == Diagonal(x, y, prev_x, prev_y)
                             x1 == x - Len(diag)
                             y1 == y - Len(diag)
                             step == IF d > 0 THEN <<Move(prev_x, prev_y, x1, y1)>> ELSE <<>>
                         IN BacktrackFrom(trace, d - 1, prev_x, prev_y, ret \o diag \o step)

\* Myers::backtrack
backtrack(a, b) ==
    LET edits == shortest_edit(a, b)
    IN IF edits.panic THEN MovesPanic
       ELSE BacktrackFrom(edits.trace, Len(edits.trace) - 1, Len(a), Len(b), <<>>)

Edit(kind, la, lb) == [kind |-> kind, a |-> la, b |-> lb]

\* the body of the loop of Myers::diff: the Edit of one move
EditOf(a, b, mv) ==
    LET a_line == IF mv.prev_x < Len(a) THEN SomeLine(a[mv.prev_x + 1]) ELSE NoLine
        b_line == IF mv.prev_y < Len(b) THEN SomeLine(b[mv.prev_y + 1]) ELSE NoLine
    IN IF mv.x = mv.prev_x THEN Edit("Insert", NoLine, b_line)
       ELSE IF mv.y = mv.prev_y THEN Edit("Delete", a_line, NoLine)
       ELSE Edit("Equals", a_line, b_line)

DiffPanic == [panic |-> TRUE, edits |-> <<>>]

\* Myers::diff
diff(a, b) ==
    LET r == backtrack(a, b)
    IN IF r.panic THEN DiffPanic
       ELSE IF \E i \in 1..Len(r.moves) : r.moves[i].prev_x < 0 \/ r.moves[i].prev_y < 0
       THEN DiffPanic
       ELSE [panic |-> FALSE,
             edits |-> Reverse([i \in 1..Len(r.moves) |-> EditOf(a, b, r.moves[i])])]

NotCalled == [called |-> FALSE]

InitMyers ==
    /\ myers \in {[lines |-> MyersFrom(ta, tb), se |-> NotCalled, df |-> NotCalled] :
                    ta \in LineTexts, tb \in LineTexts}
    /\ lastOp = NoOp
    /\ index = EmptyIndex /\ nops = 0 /\ gitfs = <<>> /\ fs = <<>>
    /\ procs = <<>> /\ objects = {} /\ hunk = <<>> /\ ixfile = <<>> /\ status = <<>> /\ rev = <<>>
    /\ treeA = {} /\ treeB = {} /\ pc = "unused"
    /\ migration = <<>> /\ todo = <<>> /\ log = <<>> /\ result = "unused"

UnchangedByMyers ==
    UNCHANGED <<index, nops, lastOp, gitfs, fs, procs, objects, treeA, treeB, pc,
                migration, todo, log, result, hunk, ixfile, status, rev>>

\* a call of shortest_edit
MyersShortestEdit ==
    /\ ~myers.se.called
    /\ LET r == shortest_edit(myers.lines.a, myers.lines.b)
       IN myers' = [myers EXCEPT !.se = [called |-> TRUE, panic |-> r.panic, trace |-> r.trace]]
    /\ UnchangedByMyers

\* a call of diff
MyersDiff ==
    /\ ~myers.df.called
    /\ LET r == diff(myers.lines.a, myers.lines.b)
       IN myers' = [myers EXCEPT !.df = [called |-> TRUE, panic |-> r.panic, edits |-> r.edits]]
    /\ UnchangedByMyers

NextMyers == MyersShortestEdit \/ MyersDiff

SpecMyers == InitMyers /\ [][NextMyers]_vars

(***************************************************************************)
(* Hunks (src/src/diff/hunk.rs).  Offsets count from 0 as in the source:   *)
(* edit number i of the source is element i + 1 of a sequence here.        *)
(***************************************************************************)
MaxEdits == 9

HUNK_CONTEXT == 3

EditKinds == {"Insert", "Delete", "Equals"}

KindLists == UNION {[1..n -> EditKinds] : n \in 0..MaxEdits}

\* the number of edits among the first i that have an a side / a b side
CountA(ks, i) == Cardinality({j \in 1..i : ks[j] # "Insert"})

CountB(ks, i) == Cardinality({j \in 1..i : ks[j] # "Delete"})

\* an edit list of the given kinds with the line numbers Myers::diff gives
EditsOf(ks) ==
    [i \in 1..Len(ks) |->
        LET la == SomeLine([content |-> "p", number |-> CountA(ks, i) - 1])
            lb == SomeLine([content |-> "p", number |-> CountB(ks, i) - 1])
        IN IF ks[i] = "Insert" THEN Edit("Insert", NoLine, lb)
           ELSE IF ks[i] = "Delete" THEN Edit("Delete", la, NoLine)
           ELSE Edit("Equals", la, lb)]

\* Edit::is_equals
is_equals(e) == e.kind = "Equals"

\* a counter that is set one short when a change comes into view
NextCounterShort(edits, offset, counter) ==
    IF offset + HUNK_CONTEXT >= Len(edits) THEN counter - 1
    ELSE IF ~is_equals(edits[offset + HUNK_CONTEXT + 1]) THEN 2 * HUNK_CONTEXT
    ELSE counter - 1

\* Hunk::build: the counter after looking HUNK_CONTEXT edits ahead
NextCounter(edits, offset, counter) ==
    IF offset + HUNK_CONTEXT >= Len(edits) THEN counter - 1
    ELSE IF ~is_equals(edits[offset + HUNK_CONTEXT + 1]) THEN 2 * HUNK_CONTEXT + 1
    ELSE counter - 1

RECURSIVE BuildLoop(_, _, _, _)
\* the loop of Hunk::build: (the edits collected, the offset reached)
BuildLoop(edits, offset, counter, e) ==
    IF counter = 0 THEN [edits |-> e, offset |-> offset]
    ELSE LET e1 == IF offset >= 0 /\ counter > 0 THEN Append(e, edits[offset + 1]) ELSE e
             o1 == offset + 1
         IN IF o1 >= Len(edits) THEN [edits |-> e1, offset |-> o1]
            ELSE BuildLoop(edits, o1, NextCounter(edits, o1, counter), e1)

\* Hunk::build
build(a, b, edits, offset) ==
    LET r == BuildLoop(edits, offset, -1, <<>>)
    IN [hunk |-> [a_start |-> a, b_start |-> b, edits |-> r.edits], offset |-> r.offset]

RECURSIVE SkipEquals(_, _)
\* while offset < edit_len && edits[offset].is_equals()
SkipEquals(edits, offset) ==
    IF offset >= 0 /\ offset < Len(edits) /\ is_equals(edits[offset + 1])
    THEN SkipEquals(edits, offset + 1)
    ELSE offset

\* a_start / b_start of Hunk::filter
StartOf(edits, offset, side) ==
    IF offset < 0 THEN 0
    ELSE LET l == IF side = "a" THEN edits[offset + 1].a ELSE edits[offset + 1].b
         IN IF l.some THEN l.number ELSE 0

RECURSIVE FilterLoop(_, _, _)
\* the loop of Hunk::filter; a negative offset cast to usize is past the end
FilterLoop(edits, offset, hunks) ==
    LET o1 == SkipEquals(edits, offset)
    IN IF o1 < 0 \/ o1 >= Len(edits) THEN hunks
       ELSE LET o2 == o1 - (HUNK_CONTEXT + 1)
                r == build(StartOf(edits, o2, "a"), StartOf(edits, o2, "b"), edits, o2)
            IN FilterLoop(edits, r.offset, Append(hunks, r.hunk))

\* Hunk::filter
filter(edits) == FilterLoop(edits, 0, <<>>)

InitHunk ==
    /\ hunk \in {[edits |-> EditsOf(ks), called |-> FALSE, hunks |-> <<>>] : ks \in KindLists}
    /\ lastOp = NoOp
    /\ index = EmptyIndex /\ nops = 0 /\ gitfs = <<>> /\ fs = <<>>
    /\ procs = <<>> /\ objects = {} /\ myers = <<>> /\ ixfile = <<>> /\ status = <<>> /\ rev = <<>>
    /\ treeA = {} /\ treeB = {} /\ pc = "unused"
    /\ migration = <<>> /\ todo = <<>> /\ log = <<>> /\ result = "unused"

\* a call of Hunk::filter
HunkFilter ==
    /\ ~hunk.called
    /\ hunk' = [hunk EXCEPT !.called = TRUE, !.hunks = filter(hunk.edits)]
    /\ UNCHANGED <<index, nops, lastOp, gitfs, fs, procs, objects, myers, treeA, treeB,
                   pc, migration, todo, log, result, ixfile, status, rev>>

NextHunk == HunkFilter

SpecHunk == InitHunk /\ [][NextHunk]_vars

(***************************************************************************)
(* The bytes of .git/index (src/src/index.rs, src/src/index/entry.rs).     *)
(* A byte is a number 0..255; the 20 bytes of a SHA-1 are one symbol       *)
(* above 255.  An entry here carries every field of the Entry struct.      *)
(***************************************************************************)
\* the UTF-8 bytes of a component name
NameBytes(n) ==
    CASE n = "." -> <<46>>
      [] n = ".git" -> <<46, 103, 105, 116>>
      [] n = "a" -> <<97>>
      [] n = "ab" -> <<97, 98>>
      [] n = "b" -> <<98>>
      [] n = "cd" -> <<99, 100>>
      [] n = "objects" -> <<111, 98, 106, 101, 99, 116, 115>>

RECURSIVE PathBytes(_)
\* path.to_str(): the components joined by '/'
PathBytes(p) ==
    IF Len(p) = 1 THEN NameBytes(p[1])
    ELSE NameBytes(p[1]) \o <<47>> \o PathBytes(Tail(p))

RECURSIVE SplitPath(_)
\* the components of a path string
SplitPath(s) ==
    IF \E i \in 1..Len(s) : s[i] = 47
    THEN LET k == CHOOSE i \in 1..Len(s) : s[i] = 47 /\ \A j \in 1..(i - 1) : s[j] # 47
         IN <<SubSeq(s, 1, k - 1)>> \o SplitPath(SubSeq(s, k + 1, Len(s)))
    ELSE <<s>>

\* PathBuf::from of a path string
PathOfBytes(s) ==
    LET parts == SplitPath(s)
        known == {NameSeq[i] : i \in 1..Len(NameSeq)}
    IN [i \in 1..Len(parts) |->
          IF \E n \in known : NameBytes(n) = parts[i]
          THEN CHOOSE n \in known : NameBytes(n) = parts[i]
          ELSE "?"]

\* write_u32::<BigEndian> / read_u32::<BigEndian>
U32(n) == <<n \div 16777216, (n \div 65536) % 256, (n \div 256) % 256, n % 256>>

ReadU32(s, at) == s[at] * 16777216 + s[at + 1] * 65536 + s[at + 2] * 256 + s[at + 3]

\* write_u16::<BigEndian> / read_u16::<BigEndian>
U16(n) == <<(n \div 256) % 256, n % 256>>

ReadU16(s, at) == s[at] * 256 + s[at + 1]

\* utilities::decode_hex of an oid given as its 40 hex digits / hex::encode
decode_hex(digits) == [i \in 1..(Len(digits) \div 2) |-> 16 * digits[2 * i - 1] + digits[2 * i]]

hex_encode(bytes) ==
    [i \in 1..(2 * Len(bytes)) |->
        IF i % 2 = 1 THEN bytes[(i + 1) \div 2] \div 16 ELSE bytes[i \div 2] % 16]

StatFields == <<"ctime", "ctime_ns", "mtime", "mtime_ns", "dev", "ino", "mode", "uid", "gid", "size">>

\* Entry::new: flags is the length of the path string, at most 0xFFF
FileEntry(path, digits, stat) ==
    [path |-> path, oid |-> digits,
     flags |-> IF Len(PathBytes(path)) > 4095 THEN 4095 ELSE Len(PathBytes(path)),
     stat |-> stat]

RECURSIVE Zeros(_)
Zeros(n) == IF n <= 0 THEN <<>> ELSE <<0>> \o Zeros(n - 1)

\* one NUL less than Entry::pack writes after the path
pack_without_nul(e) ==
    LET data == U32(e.stat[1]) \o U32(e.stat[2]) \o U32(e.stat[3]) \o U32(e.stat[4])
                \o U32(e.stat[5]) \o U32(e.stat[6]) \o U32(e.stat[7]) \o U32(e.stat[8])
                \o U32(e.stat[9]) \o U32(e.stat[10])
                \o decode_hex(e.oid) \o U16(e.flags) \o PathBytes(e.path)
    IN data \o Zeros((8 - (Len(data) % 8)) % 8)

\* Entry::pack
pack(e) ==
    LET data == U32(e.stat[1]) \o U32(e.stat[2]) \o U32(e.stat[3]) \o U32(e.stat[4])
                \o U32(e.stat[5]) \o U32(e.stat[6]) \o U32(e.stat[7]) \o U32(e.stat[8])
                \o U32(e.stat[9]) \o U32(e.stat[10])
                \o decode_hex(e.oid) \o U16(e.flags) \o PathBytes(e.path) \o <<0>>
    IN data \o Zeros((8 - (Len(data) % 8)) % 8)

RECURSIVE TrimNul(_)
\* trim_end_matches('\0')
TrimNul(s) ==
    IF s # <<>> /\ s[Len(s)] = 0 THEN TrimNul(SubSeq(s, 1, Len(s) - 1)) ELSE s

\* Entry::from
EntryFrom(b) ==
    [path |-> PathOfBytes(TrimNul(SubSeq(b, 63, Len(b)))),
     oid |-> hex_encode(SubSeq(b, 41, 60)),
     flags |-> ReadU16(b, 61),
     stat |-> [i \in 1..10 |-> ReadU32(b, 4 * i - 3)]]

RECURSIVE Sha1Sum(_, _, _)
\* a sum over bytes lo..hi weighted by position
Sha1Sum(s, lo, hi) ==
    IF lo > hi THEN 0
    ELSE IF lo = hi THEN (lo * (s[lo] + 1)) % 65521
    ELSE LET mid == (lo + hi) \div 2
         IN (Sha1Sum(s, lo, mid) + Sha1Sum(s, mid + 1, hi)) % 65521

\* Sha1::digest of the bytes fed to it: one symbol for the 20 bytes
Sha1(s) == 256 + Sha1Sum(s, 1, Len(s))

RECURSIVE BytesLess(_, _)
\* Ord for String: byte by byte
BytesLess(s, t) ==
    IF t = <<>> THEN FALSE
    ELSE IF s = <<>> THEN TRUE
    ELSE IF Head(s) # Head(t) THEN Head(s) < Head(t)
    ELSE BytesLess(Tail(s), Tail(t))

RECURSIVE StringOrder(_)
\* BTreeMap<String, Entry>::values: the entries by ascending key
StringOrder(es) ==
    IF es = {} THEN <<>>
    ELSE LET least == CHOOSE e \in es :
                        \A x \in es \ {e} : BytesLess(PathBytes(e.path), PathBytes(x.path))
         IN <<least>> \o StringOrder(es \ {least})

RECURSIVE Flatten(_)
Flatten(ss) == IF ss = <<>> THEN <<>> ELSE Head(ss) \o Flatten(Tail(ss))

\* the header: "DIRC", version 2, the number of entries
HeaderBytes(n) == <<68, 73, 82, 67>> \o U32(2) \o U32(n)

\* the bytes Index::write_updates sends to the lock file
IndexBytes(es) ==
    LET order == StringOrder(es)
        body == HeaderBytes(Cardinality(es)) \o Flatten([i \in 1..Len(order) |-> pack(order[i])])
    IN body \o <<Sha1(body)>>

\* Index::read into a buffer of n zeros: the bytes there are, then zeros
ReadBlock(bytes, pos, n) ==
    [i \in 1..n |-> IF pos + i <= Len(bytes) THEN bytes[pos + i] ELSE 0]

Available(bytes, pos, n) == IF pos + n <= Len(bytes) THEN n ELSE Len(bytes) - pos

RECURSIVE ReadEntryBlocks(_, _, _)
\* while entry.last() != 0: read 8 more bytes
ReadEntryBlocks(bytes, pos, entry) ==
    IF entry[Len(entry)] = 0 THEN entry
    ELSE ReadEntryBlocks(bytes, pos, entry \o ReadBlock(bytes, pos + Len(entry), 8))

LoadPanic == [panic |-> TRUE, idx |-> EmptyIndex, order |-> <<>>]

RECURSIVE LoadEntries(_, _, _, _, _, _)
\* the loop "for _x in 0..count" of Index::load, then the checksum
LoadEntries(bytes, pos, left, fed, idx, order) ==
    IF left = 0
    THEN IF SubSeq(bytes, pos + 1, Len(bytes)) = <<Sha1(fed)>>
         THEN [panic |-> FALSE, idx |-> idx, order |-> order]
         ELSE LoadPanic
    ELSE LET entry == ReadEntryBlocks(bytes, pos, ReadBlock(bytes, pos, 64))
             e == EntryFrom(entry)
             pos1 == pos + Available(bytes, pos, Len(entry))
         IN LoadEntries(bytes, pos1, left - 1, fed \o entry,
                        add_entry(idx, e), Append(order, e.path))

\* Index::load of an index file that exists
LoadFile(bytes) ==
    LET header == ReadBlock(bytes, 0, 12)
    IN IF SubSeq(header, 1, 4) # <<68, 73, 82, 67>> \/ ReadU32(header, 5) # 2
       THEN LoadPanic
       ELSE LoadEntries(bytes, Available(bytes, 0, 12), ReadU32(header, 9), header,
                        EmptyIndex, <<>>)

OidDigits(k) == [i \in 1..40 |-> (i * k + k) % 16]

StatSeq ==
    << [i \in 1..10 |-> 0],
       <<1, 255, 256, 65537, 16909060, 2147483647, 33188, 1000, 1000, 5>>,
       <<16777216, 0, 65280, 1, 66305, 7, 33261, 0, 255, 0>> >>

FilePaths ==
    {<<"a">>, <<"b">>, <<"ab">>, <<"a", "b">>, <<"a", "objects">>, <<"ab", "objects">>}

FileEntries ==
    {FileEntry(p, OidDigits(7 * (s - 1)), StatSeq[s]) : p \in FilePaths, s \in 1..Len(StatSeq)}

NoFile == [written |-> FALSE, read |-> FALSE]

InitIndexFile ==
    /\ index = EmptyIndex
    /\ ixfile = NoFile
    /\ nops = 0
    /\ lastOp = NoOp
    /\ gitfs = <<>> /\ fs = <<>> /\ treeA = {} /\ treeB = {} /\ pc = "unused"
    /\ migration = <<>> /\ todo = <<>> /\ log = <<>> /\ result = "unused"
    /\ procs = <<>> /\ objects = {} /\ myers = <<>> /\ hunk = <<>> /\ status = <<>> /\ rev = <<>>

UnchangedByIndexFile ==
    UNCHANGED <<lastOp, gitfs, fs, treeA, treeB, pc, migration, todo, log, result,
                procs, objects, myers, hunk, status, rev>>

\* Index::add of one file
FileAdd ==
    /\ nops < MaxOps
    /\ ~ixfile.written
    /\ \E e \in FileEntries : index' = add_entry(index, e)
    /\ nops' = nops + 1
    /\ UNCHANGED ixfile
    /\ UnchangedByIndexFile

\* Index::remove of one path
FileRemove ==
    /\ nops < MaxOps
    /\ ~ixfile.written
    /\ \E p \in FilePaths : index' = remove(index, p)
    /\ nops' = nops + 1
    /\ UNCHANGED ixfile
    /\ UnchangedByIndexFile

\* Index::write_updates of a changed index: the lock file becomes the index
FileWrite ==
    /\ ~ixfile.written
    /\ index.changed
    /\ ixfile' = [written |-> TRUE, read |-> FALSE,
                  bytes |-> IndexBytes(index.entries), wrote |-> index.entries]
    /\ index' = [index EXCEPT !.changed = FALSE]
    /\ UNCHANGED nops
    /\ UnchangedByIndexFile

\* Index::load by the next command
FileLoad ==
    /\ ixfile.written /\ ~ixfile.read
    /\ ixfile' = [ixfile EXCEPT !.read = TRUE]
    /\ LET r == LoadFile(ixfile.bytes)
       IN /\ index' = r.idx
          /\ lastOp' = [op |-> "load", panic |-> r.panic, order |-> r.order]
    /\ UNCHANGED <<nops, gitfs, fs, treeA, treeB, pc, migration, todo, log, result,
                   procs, objects, myers, hunk, status, rev>>

NextIndexFile == FileAdd \/ FileRemove \/ FileWrite \/ FileLoad

SpecIndexFile == InitIndexFile /\ [][NextIndexFile]_vars

\* what became of the file between two commands: another magic, another
\* version, or another trailing digest
Damage(bytes, what) ==
    IF what = "magic" THEN [bytes EXCEPT ![1] = 100]
    ELSE IF what = "version" THEN [bytes EXCEPT ![8] = 3]
    ELSE [bytes EXCEPT ![Len(bytes)] = 256 + ((@ - 255) % 65521)]

\* .git/index is changed behind the program's back
FileDamage ==
    /\ ixfile.written /\ ~ixfile.read
    /\ "damaged" \notin DOMAIN ixfile
    /\ \E what \in {"magic", "version", "digest"} :
          ixfile' = [ixfile EXCEPT !.bytes = Damage(@, what)] @@ [damaged |-> what]
    /\ UNCHANGED <<index, nops>>
    /\ UnchangedByIndexFile

NextDamagedFile == FileAdd \/ FileRemove \/ FileWrite \/ FileDamage \/ FileLoad

SpecDamagedFile == InitIndexFile /\ [][NextDamagedFile]_vars

(***************************************************************************)
(* Names and branches (src/src/revision.rs, src/src/refs.rs).  A name is   *)
(* a string, here the sequence of its bytes.                               *)
(***************************************************************************)
StartsWith(s, pat) == Len(s) >= Len(pat) /\ SubSeq(s, 1, Len(pat)) = pat

EndsWith(s, pat) == Len(s) >= Len(pat) /\ SubSeq(s, Len(s) - Len(pat) + 1, Len(s)) = pat

Contains(s, pat) == \E i \in 0..(Len(s) - Len(pat)) : SubSeq(s, i + 1, i + Len(pat)) = pat

\* the bytes of the class [\x00-\x20*:?\[\\^=\x7f]
InvalidBytes == (0..32) \cup {42, 58, 63, 91, 92, 94, 61, 127}

\* INVALID_NAME.is_match
INVALID_NAME(s) ==
    \/ StartsWith(s, <<46>>)
    \/ Contains(s, <<47, 46>>)
    \/ Contains(s, <<46, 46>>)
    \/ EndsWith(s, <<47>>)
    \/ EndsWith(s, <<46, 108, 111, 99, 107>>)
    \/ Contains(s, <<64, 123>>)
    \/ \E i \in 1..Len(s) : s[i] \in InvalidBytes

\* Refs::heads_path, the repository being ./.git
HeadsPath == <<".git", "refs", "heads">>

\* Lockfile::new: the file name with ".lock" pushed onto it
LockName(n) ==
    CASE n = "a" -> "a.lock"
      [] n = "b" -> "b.lock"
      [] n = ".git" -> ".git.lock"

LockPath(p) == Parent(p) \o <<LockName(p[Len(p)])>>

\* std::fs::create_dir_all
FsCreateDirAll(f, p) == [f EXCEPT !.dirs = @ \cup {SubSeq(p, 1, k) : k \in 0..Len(p)}]

\* std::fs::rename of a file: not onto a directory
FsRename(f, from, to) ==
    IF Kind(f, from) # "file" \/ Kind(f, to) = "dir" \/ Kind(f, Parent(to)) # "dir"
    THEN Err(f)
    ELSE Ok([f EXCEPT !.files =
                [q \in (DOMAIN @ \ {from}) \cup {to} |->
                    IF q = to THEN f.files[from] ELSE f.files[q]]])

\* Refs::validate_branch_name
validate_branch_name(f, name) ==
    IF INVALID_NAME(PathBytes(name)) THEN "InvalidName"
    ELSE IF Kind(f, HeadsPath \o name) = "file" THEN "AlreadyExists"
    ELSE "Ok"

\* Refs::update_ref_file: try_lock (a panic when the lock file cannot be
\* created), the two write_all, commit
update_ref_file(f, path, o) ==
    LET locked == FsCreateNew(f, LockPath(path), <<>>, "100644")
    IN IF ~locked.ok THEN [fs |-> f, result |-> "panic"]
       ELSE LET written == [locked.fs EXCEPT !.files[LockPath(path)].data = RefChunks(o)]
                renamed == FsRename(written, LockPath(path), path)
            IN [fs |-> renamed.fs, result |-> IF renamed.ok THEN "Ok" ELSE "Err"]

\* Refs::create_branch
create_branch(f, name, start) ==
    LET v == validate_branch_name(f, name)
    IN IF v # "Ok" THEN [fs |-> f, result |-> v]
       ELSE IF ~start.some THEN [fs |-> f, result |-> "NoStart"]
       ELSE update_ref_file(FsCreateDirAll(f, HeadsPath), HeadsPath \o name, start.oid)

BranchNames == {<<"b">>, <<"a">>, <<"a", "b">>, <<".git">>}

Starts == {NoOid, SomeOid(1), SomeOid(2)}

\* the repositories create_branch starts in: refs/heads there or not, a
\* directory refs/heads/a (of branches a/...) there or not
RefsFs ==
    {[files |-> <<>>, dirs |-> {<<>>, <<".git">>, <<".git", "refs">>} \cup d] :
        d \in {{}, {HeadsPath}, {HeadsPath, HeadsPath \o <<"a">>}}}

InitRefs ==
    /\ fs \in RefsFs
    /\ nops = 0
    /\ lastOp = NoOp
    /\ index = EmptyIndex /\ gitfs = <<>>
    /\ procs = <<>> /\ objects = {} /\ myers = <<>> /\ hunk = <<>> /\ ixfile = <<>> /\ status = <<>> /\ rev = <<>>
    /\ treeA = {} /\ treeB = {} /\ pc = "unused"
    /\ migration = <<>> /\ todo = <<>> /\ log = <<>> /\ result = "unused"

\* one call of create_branch
CreateBranch ==
    /\ nops < MaxOps
    /\ \E name \in BranchNames, start \in Starts :
          LET r == create_branch(fs, name, start)
          IN /\ fs' = r.fs
             /\ lastOp' = [op |-> "create_branch", name |-> name, start |-> start,
                           result |-> r.result]
    /\ nops' = nops + 1
    /\ UNCHANGED <<index, gitfs, procs, objects, myers, hunk, ixfile, status, rev, treeA, treeB, pc,
                   migration, todo, log, result>>

NextRefs == CreateBranch

SpecRefs == InitRefs /\ [][NextRefs]_vars

(***************************************************************************)
(* Two calls of Refs::create_branch with the same name side by side, each  *)
(* taken one file-system call at a time.  procs[p] is [pc, start, result]. *)
(***************************************************************************)
RaceNames == {<<"b">>, <<"a">>}

RaceStarts == {1, 2}

\* the branch there already, or not
RaceFs ==
    RefsFs \cup
    {[files |-> (HeadsPath \o n) :> [data |-> RefChunks(2), exec |-> FALSE],
      dirs |-> {<<>>, <<".git">>, <<".git", "refs">>, HeadsPath}] : n \in RaceNames}

InitRace ==
    /\ fs \in RaceFs
    /\ procs \in [Procs -> {[pc |-> "validate", start |-> s, result |-> "none"] :
                              s \in RaceStarts}]
    /\ log \in {<<n>> : n \in RaceNames}
    /\ nops = 0 /\ lastOp = NoOp
    /\ index = EmptyIndex /\ gitfs = <<>>
    /\ objects = {} /\ myers = <<>> /\ hunk = <<>> /\ ixfile = <<>> /\ status = <<>> /\ rev = <<>>
    /\ treeA = {} /\ treeB = {} /\ pc = "unused"
    /\ migration = <<>> /\ todo = <<>> /\ result = "unused"

\* the name both calls were given
RaceName == log[1]

RacePath == HeadsPath \o RaceName

UnchangedByRace ==
    UNCHANGED <<index, nops, lastOp, gitfs, objects, myers, hunk, ixfile, status, rev,
                treeA, treeB, pc, migration, todo, log, result>>

\* validate_branch_name and the match on it
BranchValidate(p) ==
    /\ procs[p].pc = "validate"
    /\ LET v == validate_branch_name(fs, RaceName)
       IN procs' = [procs EXCEPT ![p] =
                       IF v = "Ok" THEN [@ EXCEPT !.pc = "mkdir"]
                       ELSE [@ EXCEPT !.pc = "done", !.result = v]]
    /\ UNCHANGED fs
    /\ UnchangedByRace

\* std::fs::create_dir_all(self.heads_path())
BranchMkdir(p) ==
    /\ procs[p].pc = "mkdir"
    /\ fs' = FsCreateDirAll(fs, HeadsPath)
    /\ procs' = [procs EXCEPT ![p].pc = "lock"]
    /\ UnchangedByRace

\* Lockfile::try_lock: create_new, a panic when it fails
BranchLock(p) ==
    /\ procs[p].pc = "lock"
    /\ LET locked == FsCreateNew(fs, LockPath(RacePath), <<>>, "100644")
       IN /\ fs' = locked.fs
          /\ procs' = [procs EXCEPT ![p] =
                          IF locked.ok THEN [@ EXCEPT !.pc = "write"]
                          ELSE [@ EXCEPT !.pc = "done", !.result = "panic"]]
    /\ UnchangedByRace

\* the two write_all of update_ref_file, one at a time
BranchWrite(p) ==
    /\ procs[p].pc = "write"
    /\ LET data == fs.files[LockPath(RacePath)].data
           chunks == RefChunks(procs[p].start)
       IN /\ fs' = [fs EXCEPT !.files[LockPath(RacePath)].data =
                                   Append(@, chunks[Len(data) + 1])]
          /\ procs' = [procs EXCEPT ![p].pc = IF Len(data) + 1 = Len(chunks)
                                              THEN "commit" ELSE "write"]
    /\ UnchangedByRace

\* Lockfile::commit: the rename
BranchCommit(p) ==
    /\ procs[p].pc = "commit"
    /\ LET renamed == FsRename(fs, LockPath(RacePath), RacePath)
       IN /\ fs' = renamed.fs
          /\ procs' = [procs EXCEPT ![p].pc = "done",
                                    ![p].result = IF renamed.ok THEN "Ok" ELSE "Err"]
    /\ UnchangedByRace

NextRace ==
    \E p \in Procs :
        \/ BranchValidate(p)
        \/ BranchMkdir(p)
        \/ BranchLock(p)
        \/ BranchWrite(p)
        \/ BranchCommit(p)

SpecRace == InitRace /\ [][NextRace]_vars

(***************************************************************************)
(* Status (src/src/repository.rs, src/src/commands/status.rs).  The        *)
(* workspace is a file system whose files carry their content, their mode  *)
(* and their times; an index entry carries the oid, the mode, the size and *)
(* the times of the file it was added from.  Entry::stat_match and         *)
(* Entry::stat_times_match are called by the source but not part of it;    *)
(* they are functions of the entry and the stat alone.                     *)
(***************************************************************************)
IGNORED == {".", "..", ".git", "target", ".idea", "cmake-build-debug"}

\* the length of a file's content: contents 1 and 2 are as long as each other
Size(data) == IF data = 3 THEN 2 ELSE 1

\* Blob::new(data).oid(): the digest of the content
BlobOid(data) == 40 + data

\* std::fs::metadata of a workspace file
Metadata(f, p) == [mode |-> f.files[p].mode, size |-> Size(f.files[p].data),
                   time |-> f.files[p].time]

\* Entry::new
StatEntry(p, o, stat) == [path |-> p, oid |-> o, mode |-> stat.mode,
                          size |-> stat.size, time |-> stat.time]

stat_match(e, stat) == e.mode = stat.mode /\ e.size = stat.size

stat_times_match(e, stat) == e.time = stat.time

\* Workspace::list_dir: the children of a directory in path order, those
\* whose path starts with an ignored name left out
list_dir(f, dir) ==
    SortedPaths({p \in DOMAIN f.files \cup f.dirs :
                    /\ Len(p) = Len(dir) + 1
                    /\ IsPrefix(dir, p)
                    /\ p[1] \notin IGNORED})

RECURSIVE trackable_file(_, _, _)
trackable_file(idx, f, path) ==
    IF Kind(f, path) = "file" THEN ~has_entry(idx, path)
    ELSE IF Kind(f, path) # "dir" THEN FALSE
    ELSE LET items == list_dir(f, path)
         IN \E i \in 1..Len(items) : trackable_file(idx, f, items[i])

\* the name status lists an untracked path under
UntrackedName(f, file) ==
    PathBytes(file) \o (IF Kind(f, file) = "dir" THEN <<47>> ELSE <<>>)

RECURSIVE ScanList(_, _, _, _)
ScanList(idx, f, list, acc) ==
    IF list = <<>> THEN acc
    ELSE LET file == Head(list)
             acc1 == IF has_entry(idx, file)
                     THEN IF Kind(f, file) = "dir"
                          THEN ScanList(idx, f, list_dir(f, file), acc)
                          ELSE [acc EXCEPT !.stats = @ \cup {file}]
                     ELSE IF trackable_file(idx, f, file)
                          THEN [acc EXCEPT !.untracked = Append(@, UntrackedName(f, file))]
                          ELSE acc
         IN ScanList(idx, f, Tail(list), acc1)

\* Repository::scan_workspace(None)
scan_workspace(idx, f) ==
    ScanList(idx, f, list_dir(f, <<>>), [stats |-> {}, untracked |-> <<>>])

\* Repository::record_change
record_change(st, name, target, s) ==
    IF target = "Workspace"
    THEN [st EXCEPT !.changed = @ \cup {name},
                    !.workspace_changes = Insert(@, name, s)]
    ELSE [st EXCEPT !.changed = @ \cup {name},
                    !.index_changes = Insert(@, name, s)]

\* Repository::check_index_against_workspace
check_index_against_workspace(st, f, e) ==
    IF e.path \notin st.stats
    THEN record_change(st, e.path, "Workspace", "D")
    ELSE LET stat == Metadata(f, e.path)
             hashed == BlobOid(f.files[e.path].data)
         IN IF stat_match(e, stat) /\ stat_times_match(e, stat) THEN st
            ELSE IF stat_match(e, stat) /\ e.oid = hashed
            THEN [st EXCEPT !.index = add_entry(@, StatEntry(e.path, hashed, stat))]
            ELSE record_change(st, e.path, "Workspace", "M")

\* Repository::check_index_against_tree
check_index_against_tree(st, e) ==
    IF \E item \in st.tree : item.path = e.path
    THEN LET item == CHOOSE item \in st.tree : item.path = e.path
         IN IF item.oid # e.oid \/ item.mode # e.mode
            THEN record_change(st, e.path, "Index", "M")
            ELSE st
    ELSE record_change(st, e.path, "Index", "A")

RECURSIVE RecordDeleted(_, _)
RecordDeleted(st, deleted) ==
    IF deleted = <<>> THEN st
    ELSE RecordDeleted(record_change(st, Head(deleted), "Index", "D"), Tail(deleted))

\* Repository::check_deleted_tree_files
check_deleted_tree_files(st) ==
    RecordDeleted(st, SortedPaths({item.path : item \in {x \in st.tree : ~has_entry(st.index, x.path)}}))

RECURSIVE SortBytes(_)
\* Vec<String>::sort and dedup
SortBytes(S) ==
    IF S = {} THEN <<>>
    ELSE LET least == CHOOSE x \in S : \A y \in S \ {x} : BytesLess(x, y)
         IN <<least>> \o SortBytes(S \ {least})

MaxTracked == 2

StatusPaths == {<<"a">>, <<"b">>, <<"a", "b">>, <<"a", "a", "b">>}

\* sets of paths that can be files together
PathSets ==
    {ps \in SUBSET StatusPaths :
        /\ Cardinality(ps) <= MaxTracked
        /\ \A p, q \in ps : ~IsStrictAncestor(p, q)}

\* a workspace file as it was added
AsAdded == [data |-> 1, mode |-> "100644", time |-> 1]

\* a workspace file: as added, or rewritten or touched or chmod'ed since
WorkFiles ==
    { [data |-> 1, mode |-> "100644", time |-> 1],
      [data |-> 1, mode |-> "100644", time |-> 2],
      [data |-> 2, mode |-> "100644", time |-> 1],
      [data |-> 2, mode |-> "100644", time |-> 2],
      [data |-> 3, mode |-> "100644", time |-> 2],
      [data |-> 1, mode |-> "100755", time |-> 2] }

\* the directories of a set of files
DirsOf(ps) == {<<>>} \cup UNION {{SubSeq(p, 1, k) : k \in 0..(Len(p) - 1)} : p \in ps}

\* the file of the repository directory
GitDirFile == (<<".git", "a">> :> [data |-> 1, mode |-> "100644", time |-> 1])

\* the directories without files a workspace may have besides
EmptyDirs(ps) ==
    IF <<"a">> \in ps THEN {{}} ELSE {{}, {<<"a">>}, {<<"a">>, <<"a", "a">>}}

Workspaces ==
    UNION {{[files |-> fl @@ GitDirFile, dirs |-> DirsOf(ps) \cup {<<".git">>} \cup extra] :
              fl \in {x \in [ps -> WorkFiles] : Cardinality({p \in ps : x[p] # AsAdded}) <= 1},
              extra \in EmptyDirs(ps)} : ps \in PathSets}

\* an index entry is what add made of a file as first written
IndexEntryOf(p) == StatEntry(p, BlobOid(1), [mode |-> "100644", size |-> Size(1), time |-> 1])

RECURSIVE AddAll(_, _)
AddAll(idx, order) ==
    IF order = <<>> THEN idx
    ELSE AddAll(add_entry(idx, IndexEntryOf(Head(order))), Tail(order))

\* the indexes Index::load gives
StatusIndexes == {[AddAll(EmptyIndex, SortedPaths(ps)) EXCEPT !.changed = FALSE] : ps \in PathSets}

\* the files of HEAD's tree
HeadFiles ==
    { [oid |-> BlobOid(1), mode |-> "100644"],
      [oid |-> BlobOid(2), mode |-> "100644"],
      [oid |-> BlobOid(1), mode |-> "100755"] }

HeadTrees ==
    UNION {{{[path |-> p, oid |-> hf[p].oid, mode |-> hf[p].mode] : p \in ps} :
              hf \in [ps -> HeadFiles]} : ps \in {x \in PathSets : Cardinality(x) <= 1}}

\* no commit yet, or HEAD's tree
Heads == {NoOid} \cup {SomeOid(t) : t \in HeadTrees}

NotRun == [called |-> FALSE]

\* status.at is where Repository::status is: before scan_workspace, in the
\* loop over index.entries() with status.order the entries to come, or
\* back; status.st holds what it has gathered
InitStatus ==
    /\ fs \in Workspaces
    /\ index \in StatusIndexes
    /\ status \in {[head |-> h, at |-> "scan", st |-> <<>>, order |-> <<>>,
                    untracked |-> <<>>, report |-> NotRun] : h \in Heads}
    /\ rev = <<>>
    /\ nops = 0
    /\ lastOp = NoOp
    /\ gitfs = <<>> /\ ixfile = <<>>
    /\ procs = <<>> /\ objects = {} /\ myers = <<>> /\ hunk = <<>>
    /\ treeA = {} /\ treeB = {} /\ pc = "unused"
    /\ migration = <<>> /\ todo = <<>> /\ log = <<>> /\ result = "unused"

UnchangedByStatus ==
    UNCHANGED <<fs, nops, gitfs, ixfile, procs, objects, myers, hunk, treeA, treeB, pc,
                migration, todo, log, result, rev>>

\* Repository::status: scan_workspace, get_head and read_tree, and the
\* entries index.entries() gives the loop; lastOp keeps the index status
\* started from
StatusScan ==
    /\ status.at = "scan"
    /\ LET sc == scan_workspace(index, fs)
       IN status' = [status EXCEPT
             !.at = "entries",
             !.st = [index |-> index, stats |-> sc.stats,
                     tree |-> IF status.head.some THEN status.head.oid ELSE {},
                     changed |-> {}, workspace_changes |-> <<>>, index_changes |-> <<>>],
             !.order = SortedPaths({e.path : e \in index.entries}),
             !.untracked = sc.untracked]
    /\ lastOp' = [op |-> "status", index |-> index]
    /\ UNCHANGED index
    /\ UnchangedByStatus

\* Repository::status: one round of the loop over the entries
StatusEntry ==
    /\ status.at = "entries"
    /\ status.order # <<>>
    /\ LET e == GetEntry(lastOp.index.entries, Head(status.order))
           s1 == check_index_against_workspace(status.st, fs, e)
       IN /\ status' = [status EXCEPT
                !.st = IF status.head.some
                       THEN check_deleted_tree_files(check_index_against_tree(s1, e))
                       ELSE s1,
                !.order = Tail(@)]
          /\ index' = s1.index
    /\ UNCHANGED lastOp
    /\ UnchangedByStatus

\* Repository::status: after the loop, untracked.sort() and dedup()
StatusReturn ==
    /\ status.at = "entries"
    /\ status.order = <<>>
    /\ status' = [status EXCEPT
          !.at = "done",
          !.report = [called |-> TRUE, changed |-> status.st.changed,
                      workspace_changes |-> status.st.workspace_changes,
                      index_changes |-> status.st.index_changes,
                      untracked |-> SortBytes(Elements(status.untracked))]]
    /\ UNCHANGED <<index, lastOp>>
    /\ UnchangedByStatus

NextStatus == StatusScan \/ StatusEntry \/ StatusReturn

SpecStatus == InitStatus /\ [][NextStatus]_vars
(***************************************************************************)
(* Revisions (src/src/revision.rs).  A revision string is the sequence of  *)
(* its bytes; a Revision is a record, the failure of the parse another.    *)
(***************************************************************************)
MaxRev == 4

\* a ^ ~ 1 @ .
RevBytes == {97, 94, 126, 49, 64, 46}

RevStrings == UNION {[1..n -> RevBytes] : n \in 0..MaxRev}

HEAD == <<72, 69, 65, 68>>

Ref(name) == [kind |-> "Ref", name |-> name]

ParentRev(r) == [kind |-> "Parent", rev |-> r]

AncestorRev(r, n) == [kind |-> "Ancestor", rev |-> r, n |-> n]

\* format_err!("fatal: Could not parse revision")
BadRevision == [kind |-> "Err", what |-> "Could not parse revision"]

\* `.' of a regex: any character but the newline
Dots(s) == \A i \in 1..Len(s) : s[i] # 10

IsDigits(s) == \A i \in 1..Len(s) : s[i] \in 48..57

\* PARENT_RE = ^(.+)\^$
MatchesParentRE(s) == Len(s) >= 2 /\ s[Len(s)] = 94 /\ Dots(SubSeq(s, 1, Len(s) - 1))

\* the places of the '~' of ANCESTOR_RE = ^(.+)~(\d+)$ (at most one)
AncestorSplits(s) ==
    {k \in 2..(Len(s) - 1) :
        /\ s[k] = 126
        /\ IsDigits(SubSeq(s, k + 1, Len(s)))
        /\ Dots(SubSeq(s, 1, k - 1))}

RECURSIVE ParseDigits(_)
\* str::parse::<usize> of digits, which are few enough not to overflow
ParseDigits(s) ==
    IF s = <<>> THEN 0 ELSE 10 * ParseDigits(SubSeq(s, 1, Len(s) - 1)) + (s[Len(s)] - 48)

RECURSIVE RevisionFrom(_)
\* Revision::from
RevisionFrom(s) ==
    IF MatchesParentRE(s)
    THEN LET r == RevisionFrom(SubSeq(s, 1, Len(s) - 1))
         IN IF r.kind = "Err" THEN r ELSE ParentRev(r)
    ELSE IF AncestorSplits(s) # {}
    THEN LET k == CHOOSE k \in AncestorSplits(s) : TRUE
             r == RevisionFrom(SubSeq(s, 1, k - 1))
         IN IF r.kind = "Err" THEN r
            ELSE AncestorRev(r, ParseDigits(SubSeq(s, k + 1, Len(s))))
    ELSE IF ~INVALID_NAME(s)
    THEN Ref(IF s = <<64>> THEN HEAD ELSE s)
    ELSE BadRevision

InitRevision ==
    /\ rev \in {[input |-> s, parsed |-> FALSE] : s \in RevStrings}
    /\ index = EmptyIndex /\ nops = 0 /\ lastOp = NoOp
    /\ gitfs = <<>> /\ fs = <<>> /\ ixfile = <<>> /\ status = <<>>
    /\ procs = <<>> /\ objects = {} /\ myers = <<>> /\ hunk = <<>>
    /\ treeA = {} /\ treeB = {} /\ pc = "unused"
    /\ migration = <<>> /\ todo = <<>> /\ log = <<>> /\ result = "unused"

\* Revision::from(input)
Parse ==
    /\ ~rev.parsed
    /\ rev' = [input |-> rev.input, parsed |-> TRUE, revision |-> RevisionFrom(rev.input)]
    /\ UNCHANGED <<index, nops, lastOp, gitfs, fs, ixfile, status, procs, objects, myers, hunk,
                   treeA, treeB, pc, migration, todo, log, result>>

NextRevision == Parse

SpecRevision == InitRevision /\ [][NextRevision]_vars

(***************************************************************************)
(* Resolving a Ref (src/src/revision.rs, src/src/refs.rs,                  *)
(* src/src/database.rs).  An object id is a string of OidLen hex digits,   *)
(* the first two its shard directory; refs maps the places where a ref     *)
(* file of the name exists (1 .git, 2 .git/refs, 3 .git/refs/heads) to the *)
(* file's bytes.                                                           *)
(***************************************************************************)
OidLen == 3

MaxObjects == 2

\* a b
HexBytes == {97, 98}

ObjectIds == [1..OidLen -> HexBytes]

ObjectSets == {os \in SUBSET ObjectIds : Cardinality(os) <= MaxObjects}

RefNames == UNION {[1..n -> HexBytes] : n \in 0..OidLen}

\* what update_ref_file wrote: an oid and "\n"
RefFiles == {<<97, 97, 98, 10>>, <<98, 98, 98, 10>>}

RefPlaces == {ps \in SUBSET {1, 2, 3} : Cardinality(ps) <= 2}

Whitespace == {9, 10, 11, 12, 13, 32}

RECURSIVE Trim(_)
\* str::trim
Trim(s) ==
    IF s = <<>> THEN s
    ELSE IF s[1] \in Whitespace THEN Trim(Tail(s))
    ELSE IF s[Len(s)] \in Whitespace THEN Trim(SubSeq(s, 1, Len(s) - 1))
    ELSE s

SomeBytes(s) == [some |-> TRUE, oid |-> s]

\* Refs::read_ref: path_for_name finds the first place with the file,
\* read_ref_file trims what it holds
refs_read_ref(refs) ==
    IF DOMAIN refs = {} THEN NoOid
    ELSE LET place == CHOOSE p \in DOMAIN refs : \A q \in DOMAIN refs : p <= q
         IN SomeBytes(Trim(refs[place]))

\* Database::prefix_match: object_path splits the name after two bytes (a
\* panic when it has fewer), read_dir fails when the shard is not there
prefix_match(objs, name) ==
    IF Len(name) < 2 THEN [kind |-> "panic"]
    ELSE IF ~\E o \in objs : SubSeq(o, 1, 2) = SubSeq(name, 1, 2) THEN [kind |-> "Err"]
    ELSE [kind |-> "Ok",
          set |-> {o \in {x \in objs : SubSeq(x, 1, 2) = SubSeq(name, 1, 2)} : StartsWith(o, name)}]

\* RevisionResolver::log_ambiguous_sha1: the candidates sorted, one hint each
log_ambiguous_sha1(name, candidates) ==
    [message |-> name, hints |-> SortBytes(candidates)]

\* RevisionResolver::read_ref
read_ref(refs, objs, name) ==
    LET found == refs_read_ref(refs)
    IN IF found.some THEN [result |-> found, errors |-> <<>>, panic |-> FALSE]
       ELSE LET m == prefix_match(objs, name)
            IN IF m.kind = "panic" THEN [result |-> NoOid, errors |-> <<>>, panic |-> TRUE]
               ELSE IF m.kind = "Err" THEN [result |-> NoOid, errors |-> <<>>, panic |-> FALSE]
               ELSE IF Cardinality(m.set) = 0
               THEN [result |-> NoOid, errors |-> <<>>, panic |-> FALSE]
               ELSE IF Cardinality(m.set) = 1
               THEN [result |-> SomeBytes(CHOOSE o \in m.set : TRUE), errors |-> <<>>,
                     panic |-> FALSE]
               ELSE [result |-> NoOid, errors |-> <<log_ambiguous_sha1(name, m.set)>>,
                     panic |-> FALSE]

\* the empty name has no ref file: its path is the directory itself
InitResolve ==
    /\ rev \in {[name |-> n, refs |-> r, objects |-> os, called |-> FALSE] :
                  n \in RefNames, os \in ObjectSets,
                  r \in UNION {[ps -> RefFiles] : ps \in RefPlaces}}
    /\ rev.name = <<>> => DOMAIN rev.refs = {}
    /\ index = EmptyIndex /\ nops = 0 /\ lastOp = NoOp
    /\ gitfs = <<>> /\ fs = <<>> /\ ixfile = <<>> /\ status = <<>>
    /\ procs = <<>> /\ objects = {} /\ myers = <<>> /\ hunk = <<>>
    /\ treeA = {} /\ treeB = {} /\ pc = "unused"
    /\ migration = <<>> /\ todo = <<>> /\ log = <<>> /\ result = "unused"

\* resolv(Revision::Ref { name })
ReadRef ==
    /\ ~rev.called
    /\ rev' = [rev EXCEPT !.called = TRUE] @@
              [out |-> read_ref(rev.refs, rev.objects, rev.name)]
    /\ UNCHANGED <<index, nops, lastOp, gitfs, fs, ixfile, status, procs, objects, myers, hunk,
                   treeA, treeB, pc, migration, todo, log, result>>

NextResolve == ReadRef

SpecResolve == InitResolve /\ [][NextResolve]_vars

(***************************************************************************)
(* RevisionResolver::resolver over a database of commits.  An object id    *)
(* is the hash of the object, so a commit names as its parent only an      *)
(* object made before it; rev holds the database, the ref file, the parsed *)
(* revision and, once resolved, the outcome.                               *)
(***************************************************************************)
MaxGeneration == 3

\* the object ids of the database, in the order the objects were made
ChainIds == <<<<97, 97, 98>>, <<97, 98, 97>>, <<98, 98, 98>>>>

NoObject == [kind |-> "absent"]

ABlob == [kind |-> "blob"]

ACommit(parent) == [kind |-> "commit", parent |-> parent]

\* what the database may hold at the i-th id
ObjectsAt(i) ==
    {NoObject, ABlob, ACommit(NoOid)}
        \cup {ACommit(SomeBytes(ChainIds[j])) : j \in 1..(i - 1)}

Databases == {db \in [1..Len(ChainIds) -> UNION {ObjectsAt(i) : i \in 1..Len(ChainIds)}] :
                \A i \in 1..Len(ChainIds) : db[i] \in ObjectsAt(i)}

Stored(db) == {ChainIds[i] : i \in {j \in 1..Len(ChainIds) : db[j].kind # "absent"}}

\* Database::read_object
db_read_object(db, o) ==
    IF \E i \in 1..Len(ChainIds) : ChainIds[i] = o /\ db[i].kind # "absent"
    THEN [kind |-> "Ok", object |-> db[CHOOSE i \in 1..Len(ChainIds) : ChainIds[i] = o]]
    ELSE [kind |-> "Err"]

\* RevisionResolver::commit_parent
commit_parent(db, o) ==
    IF ~o.some THEN NoOid
    ELSE LET r == db_read_object(db, o.oid)
         IN IF r.kind = "Ok" /\ r.object.kind = "commit" THEN r.object.parent ELSE NoOid

RECURSIVE ancestor_loop_from_zero(_, _, _)
\* a loop over 0..=n
ancestor_loop_from_zero(db, o, n) ==
    IF n < 0 THEN o ELSE ancestor_loop_from_zero(db, commit_parent(db, o), n - 1)

RECURSIVE ancestor_loop(_, _, _)
\* for _ in 1..=n { oid = self.commit_parent(oid) }
ancestor_loop(db, o, n) ==
    IF n < 1 THEN o ELSE ancestor_loop(db, commit_parent(db, o), n - 1)

RECURSIVE resolv(_, _, _)
\* RevisionResolver::resolv; a panic of read_ref ends the resolution
resolv(db, refs, r) ==
    IF r.kind = "Ref"
    THEN LET found == read_ref(refs, Stored(db), r.name)
         IN [oid |-> found.result, panic |-> found.panic]
    ELSE LET inner == resolv(db, refs, r.rev)
         IN IF inner.panic THEN inner
            ELSE IF r.kind = "Parent"
            THEN [oid |-> commit_parent(db, inner.oid), panic |-> FALSE]
            ELSE [oid |-> ancestor_loop(db, inner.oid, r.n), panic |-> FALSE]

\* RevisionResolver::resolver(ObjectKind::Commit) on a parsed revision
resolver(db, refs, r) ==
    LET found == resolv(db, refs, r)
    IN IF found.panic THEN [kind |-> "panic"]
       ELSE IF ~found.oid.some THEN [kind |-> "Err", what |-> "Not a valid object name"]
       ELSE LET o == db_read_object(db, found.oid.oid)
            IN IF o.kind = "Err" THEN [kind |-> "Err", what |-> "read_object"]
               ELSE IF o.object.kind = "commit" THEN [kind |-> "Ok", oid |-> found.oid.oid]
               ELSE [kind |-> "Err", what |-> "Not a valid object name"]

\* the names a revision starts from: two abbreviated ids, a full id, a
\* branch name, and a name of one byte
ChainNames == {<<97, 97>>, <<97, 98>>, <<98, 98, 98>>, <<98, 97>>, <<98>>}

Revisions0 == {Ref(n) : n \in ChainNames}

Wrap(rs) == {ParentRev(r) : r \in rs}
               \cup {AncestorRev(r, n) : r \in rs, n \in 0..MaxGeneration}

Revisions1 == Wrap(Revisions0)

Revisions == Revisions0 \cup Revisions1 \cup Wrap(Revisions1)

\* the ref file of the branch, when there is one
ChainRefs == {<<>>, 1 :> <<98, 98, 98, 10>>}

InitChain ==
    /\ rev \in {[db |-> db, refs |-> r, expr |-> e, called |-> FALSE] :
                  db \in Databases, r \in ChainRefs, e \in Revisions}
    /\ index = EmptyIndex /\ nops = 0 /\ lastOp = NoOp
    /\ gitfs = <<>> /\ fs = <<>> /\ ixfile = <<>> /\ status = <<>>
    /\ procs = <<>> /\ objects = {} /\ myers = <<>> /\ hunk = <<>>
    /\ treeA = {} /\ treeB = {} /\ pc = "unused"
    /\ migration = <<>> /\ todo = <<>> /\ log = <<>> /\ result = "unused"

\* rr.resolver(ObjectKind::Commit)
ResolveRevision ==
    /\ ~rev.called
    /\ rev' = [rev EXCEPT !.called = TRUE] @@
              [found |-> resolv(rev.db, rev.refs, rev.expr),
               out |-> resolver(rev.db, rev.refs, rev.expr)]
    /\ UNCHANGED <<index, nops, lastOp, gitfs, fs, ixfile, status, procs, objects, myers, hunk,
                   treeA, treeB, pc, migration, todo, log, result>>

NextChain == ResolveRevision

SpecChain == InitChain /\ [][NextChain]_vars

(***************************************************************************)
(* Properties of tree_diff, of the migration and of the checkout.  The     *)
(* diff of the run is migration.diff once the plan is made.                *)
(***************************************************************************)
Planned == pc \in {"workspace", "commit", "done", "panicked"}

\* equality of two optional tree entries
SameEntry(x, y) ==
    IF x = NoneV \/ y = NoneV THEN x = NoneV /\ y = NoneV ELSE MarkerEq(x, y)

Last(p) == p[Len(p)]

\* the entry of the flattened tree t at the workspace-relative path p
LeafAt(t, p) ==
    IF \E e \in t : e.path = p
    THEN LET e == CHOOSE x \in t : x.path = p IN Marker(Last(p), e.oid, e.mode)
    ELSE NoneV

\* C9: tree_diff(a, b) is empty iff a = b, and every recorded path has a
\* side present and before # after
C9_DiffEmptyIffEqual ==
    Planned =>
        /\ (migration.diff = <<>>) <=> (treeA = treeB)
        /\ \A p \in DOMAIN migration.diff :
            /\ ~(migration.diff[p][1] = NoneV /\ migration.diff[p][2] = NoneV)
            /\ ~SameEntry(migration.diff[p][1], migration.diff[p][2])

\* C10: the keys of tree_diff(a, b) are exactly the workspace-relative leaf
\* paths at which the leaf of a and the leaf of b differ, each mapped to
\* (a's leaf or none, b's leaf or none)
C10_DiffFlatComplete ==
    Planned =>
        /\ DOMAIN migration.diff =
              {p \in TreePaths : ~SameEntry(LeafAt(treeA, p), LeafAt(treeB, p))}
        /\ \A p \in DOMAIN migration.diff :
              /\ SameEntry(migration.diff[p][1], LeafAt(treeA, p))
              /\ SameEntry(migration.diff[p][2], LeafAt(treeB, p))

\* the files of the workspace outside .git, as a flattened tree
WorkspaceTree(f) ==
    { [path |-> p, oid |-> f.files[p].data,
       mode |-> IF f.files[p].exec THEN "100755" ELSE "100644"] :
        p \in {q \in DOMAIN f.files : q[1] # ".git"} }

\* C5: the checkout of b on a workspace equal to tree(a) ends without error,
\* with the workspace and the index equal to tree(b)
C5_MigrationYieldsTarget ==
    pc = "done" =>
        /\ result = "ok"
        /\ WorkspaceTree(fs) = treeB
        /\ IndexTree(index.entries) = treeB
        /\ IndexTree(DiskEntries(gitfs[GitFile("index", FALSE)])) = treeB

PhaseRank(kind) == CHOOSE i \in 1..5 :
    <<"Remove", "rmdir", "mkdir", "Create", "Update">>[i] = kind

\* C6: the steps of Workspace::apply_migration happen in the order removals,
\* rmdirs, mkdirs, Create writes, Update writes
C6_PhaseOrder ==
    \A i, j \in 1..Len(log) :
        i < j => PhaseRank(log[i].kind) <= PhaseRank(log[j].kind)

C6_Witness ==
    \E i, j \in 1..Len(log) :
        i < j /\ log[i].kind = "Remove" /\ log[i].ok /\ log[j].kind = "rmdir" /\ log[j].ok

\* x is a regular file in one tree and a directory holding x/y in the other
FileToDir(a, b) ==
    /\ \E e \in a : e.path = <<"a">>
    /\ \E e \in b : e.path = <<"a", "a">>

\* C7: a checkout that turns the file x into a directory, or the directory
\* x into a file, succeeds, with x of the right kind and the index equal to
\* the target
C7_FileDirectorySwap ==
    pc = "done" =>
        /\ FileToDir(treeA, treeB) =>
              /\ result = "ok"
              /\ Kind(fs, <<"a">>) = "dir"
              /\ Kind(fs, <<"a", "a">>) = "file"
              /\ IndexTree(DiskEntries(gitfs[GitFile("index", FALSE)])) = treeB
        /\ FileToDir(treeB, treeA) =>
              /\ result = "ok"
              /\ Kind(fs, <<"a">>) = "file"
              /\ IndexTree(DiskEntries(gitfs[GitFile("index", FALSE)])) = treeB

\* C8: when a step of the migration fails no later step runs, and at the end
\* of the command the index lock is gone and .git/index has the entries it
\* had before
C8_FailStop ==
    /\ \A i \in 1..Len(log) : ~log[i].ok => i = Len(log)
    /\ result = "error" => index.entries = IndexOf(treeA)
    /\ (pc = "done" /\ result = "error") =>
          /\ ~gitfs[GitFile("index", TRUE)].exists
          /\ DiskEntries(gitfs[GitFile("index", FALSE)]) = IndexOf(treeA)

C8_Witness ==
    /\ pc = "done" /\ result = "error"
    /\ Len(log) >= 2 /\ log[1].ok
    /\ index.entries # {}
    /\ todo.rmdir # <<>>

(***************************************************************************)
(* Properties of the lockfile discipline                                   *)
(***************************************************************************)
\* invocation p has the Lockfile of P and P.lock is there
Holds(p, P) == P \in procs[p].held /\ gitfs[GitFile(P, TRUE)].exists

MutualExclusion ==
    \A P \in GitNames : \A p, q \in Procs : Holds(p, P) /\ Holds(q, P) => p = q

CeasesOnlyByCommitOrRelease ==
    \A P \in GitNames : \A p \in Procs :
        (Holds(p, P) /\ ~Holds(p, P)') =>
            /\ lastOp'.op \in {"commit", "release"}
            /\ lastOp'.proc = p
            /\ lastOp'.file = P

\* C1: at most one invocation holds the lock of a path at any instant, and a
\* holder stops holding only by its own commit or release
C1_LockMutualExclusion == [](MutualExclusion) /\ [][CeasesOnlyByCommitOrRelease]_vars

C1_Witness ==
    \E p, q \in Procs :
        /\ Holds(p, "index") /\ Running(p)
        /\ procs[q].pc = "panicked" /\ procs[q].held = {}

IndexComplete(file) ==
    LET n == Len(file.data)
    IN /\ n >= 2
       /\ file.data[1].t = "header"
       /\ file.data[n].t = "digest"
       /\ \A i \in 2..(n - 1) : file.data[i].t = "entry"
       /\ file.data[1].count = n - 2
       /\ file.data[n].of = n - 1

RefComplete(file) ==
    /\ Len(file.data) = 2
    /\ file.data[1].t = "oid"
    /\ file.data[2].t = "nl"

Complete(P, file) == IF P = "index" THEN IndexComplete(file) ELSE RefComplete(file)

NoPartialFile ==
    \A P \in GitNames :
        gitfs[GitFile(P, FALSE)].exists => Complete(P, gitfs[GitFile(P, FALSE)])

ChangesOnlyByRename ==
    /\ \A P \in GitNames :
          gitfs'[GitFile(P, FALSE)] # gitfs[GitFile(P, FALSE)] =>
              /\ lastOp'.op = "commit" /\ lastOp'.file = P
              /\ gitfs'[GitFile(P, FALSE)] = gitfs[GitFile(P, TRUE)]
    /\ lastOp'.op = "write" =>
          \A f \in GitFiles :
              f # GitFile(lastOp'.file, TRUE) => gitfs'[f] = gitfs[f]

\* C2: writes go to P.lock only and P changes only by the rename of commit,
\* so .git/index, .git/HEAD and the branch file are complete in every state,
\* whatever the step at which an invocation ended
C2_NoPartialOfficialState == [](NoPartialFile) /\ [][ChangesOnlyByRename]_vars

C2_Witness ==
    \E p \in Procs :
        /\ procs[p].pc = "ended"
        /\ gitfs[GitFile("index", TRUE)].exists
        /\ Len(gitfs[GitFile("index", TRUE)].data) >= 1
        /\ ~IndexComplete(gitfs[GitFile("index", TRUE)])
        /\ gitfs[GitFile("index", FALSE)].exists
        /\ gitfs[GitFile("HEAD", FALSE)].exists
        /\ gitfs[GitFile("HEAD", FALSE)].data # RefChunks(InitialCommit)

\* C11: an acquisition that finds P.lock fails with an AlreadyLocked error
\* returned to the caller, and changes no file
C11_AlreadyLockedReported ==
    [][\A p \in Procs :
          (/\ lastOp'.op = "try_lock"
           /\ lastOp'.proc = p
           /\ gitfs[GitFile(lastOp'.file, TRUE)].exists) =>
              /\ procs'[p].pc = "failed"
              /\ gitfs' = gitfs]_vars

\* C12: every path of a command that ends without a termination of the
\* process has committed or released the index lock it took
C12_IndexLockLifecycle ==
    \A p \in Procs :
        procs[p].pc \in {"done", "exited", "failed"} =>
            /\ "index" \notin procs[p].held
            /\ ~Holds(p, "index")

AddDone(p) == procs[p].cmd = "add" /\ procs[p].pc = "done"

OnDisk == DiskEntries(gitfs[GitFile("index", FALSE)])

\* C13: the index is read and written under the index lock, so once two add
\* invocations are done the index on disk has what each of them staged
C13_NoLostUpdate ==
    /\ \A p \in Procs :
          procs[p].pc \in {"add", "write_index", "writing"} => Holds(p, "index")
    /\ \A p \in Procs :
          AddDone(p) =>
              \E e \in OnDisk :
                  /\ e.path = procs[p].staged.path
                  /\ \/ e.oid = procs[p].staged.oid
                     \/ \E q \in Procs \ {p} :
                           AddDone(q) /\ procs[q].staged = [path |-> e.path, oid |-> e.oid]

C13_Witness ==
    /\ \A p \in Procs : AddDone(p)
    /\ procs[1].staged.path # procs[2].staged.path
    /\ {e.path : e \in OnDisk} = {procs[1].staged.path, procs[2].staged.path}

Present(x) == x \in objects

\* every entry of the tree names a present object: the blob of a file, the
\* tree of a directory
TreeClosed(t) ==
    \A n \in TreeNames(t) :
        IF \E e \in t : e.path = <<n>>
        THEN \A e \in t : e.path = <<n>> => Present(BlobObject(e.oid))
        ELSE Present(TreeObject(Subtree(t, n)))

\* C14: the commit HEAD names is in the object database, and so are the tree
\* and the parent of every commit there and the objects of every tree there
C14_ReferentialIntegrity ==
    /\ get_head(gitfs) # NoneV => Present(get_head(gitfs))
    /\ \A x \in objects :
          /\ x.kind = "commit" =>
                /\ Present(TreeObject(x.tree))
                /\ x.parent # NoneV => Present(x.parent)
          /\ x.kind = "tree" => TreeClosed(x.entries)

RECURSIVE Chain(_)
\* the commits met from c along the parent links
Chain(c) == IF c = NoneV THEN <<>> ELSE <<c>> \o Chain(c.parent)

HeadChain == Chain(get_head(gitfs))

NewHead == gitfs'[GitFile("HEAD", FALSE)].data[1].oid

\* C17: a commit makes HEAD name a commit whose tree is the tree of the index
\* and whose parent is what HEAD named just before; the parent links from
\* HEAD lead through the commits made, newest first, to one without parent
C17_CommitChain ==
    /\ [](\/ Len(HeadChain) = nops
          \/ Len(HeadChain) = nops + 1 /\ HeadChain[nops + 1] = InitialCommit)
    /\ [](\A i \in 1..nops : HeadChain[i].author \in Procs)
    /\ [](\A p \in Procs :
            (procs[p].cmd = "commit" /\ procs[p].pc = "done") =>
                \E i \in 1..nops : HeadChain[i] = procs[p].commit)
    /\ [][\A p \in Procs :
            (lastOp'.op = "commit" /\ lastOp'.file = "HEAD" /\ lastOp'.proc = p) =>
                /\ NewHead.tree = IndexTree(procs[p].idx.entries)
                /\ NewHead.parent = get_head(gitfs)
                /\ Len(HeadChain') = Len(HeadChain) + 1]_vars

C17_Witness ==
    /\ nops = 2
    /\ \A p \in Procs : procs[p].cmd = "commit" /\ procs[p].pc = "done"
    /\ Len(HeadChain) = 3
    /\ HeadChain[1].tree # HeadChain[3].tree

Related(p, q) == IsStrictAncestor(p, q) \/ IsStrictAncestor(q, p)

CanonicalPath(x) == Resolve(object_path(oid(x)).path)

\* C15: two stores running side by side are safe: neither fails because of
\* the other, each writes a temporary file of its own, a file at an object's
\* canonical path always holds the complete deflated serialization (never a
\* part of it), a finished store leaves the object in place, and a store
\* that finds the object file returns success without touching anything.
C15_ConcurrentStoreSafe ==
    /\ [](\A p \in Procs : procs[p].pc # "failed")
    /\ [](\A p, q \in Procs :
            (p # q /\ procs[p].pc = "write" /\ procs[q].pc = "write") =>
                TempPath(p, oid(procs[p].x)) # TempPath(q, oid(procs[q].x)))
    /\ [](\A x \in StoreObjects :
            Kind(fs, CanonicalPath(x)) # "none" =>
                /\ Kind(fs, CanonicalPath(x)) = "file"
                /\ fs.files[CanonicalPath(x)].data = Deflate(serialize(x)))
    /\ [](\A p \in Procs :
            procs[p].pc \in {"done", "read"} => Kind(fs, Target(p)) = "file")
    /\ [][\A p \in Procs :
            (/\ lastOp'.op = "exists" /\ lastOp'.proc = p
             /\ procs[p].pc = "check"
             /\ Kind(fs, Target(p)) # "none") =>
                 /\ procs'[p].pc = "done" /\ fs' = fs]_vars

\* one storer is part of the way through its temporary file while the other,
\* started on the same object at the same time, has put the object in place
C15_Witness ==
    /\ procs[1].x = procs[2].x
    /\ procs[1].pc = "write"
    /\ TempPath(1, oid(procs[1].x)) \in DOMAIN fs.files
    /\ fs.files[TempPath(1, oid(procs[1].x))].data # <<>>
    /\ Len(fs.files[TempPath(1, oid(procs[1].x))].data) < Len(Deflate(serialize(procs[1].x)))
    /\ procs[2].pc = "done"
    /\ lastOp.op = "rename" /\ lastOp.proc = 2

\* C16: reading back a stored object gives its kind, its size and its body,
\* for blobs (the empty one too), trees and commits; and the object id is a
\* function of the serialized bytes alone.
C16_StoreReadRoundTrip ==
    /\ \A p \in Procs :
          procs[p].pc = "read" =>
              /\ procs[p].got.ok
              /\ procs[p].got.kind = procs[p].x.kind
              /\ procs[p].got.size = Len(procs[p].x.body)
              /\ procs[p].got.body = procs[p].x.body
    /\ \A x, y \in StoreObjects : serialize(x) = serialize(y) <=> oid(x) = oid(y)
    /\ \A x \in StoreObjects : Inflate(Deflate(serialize(x))) = serialize(x)

\* a tree whose body holds the separators has been stored and read back
C16_Witness ==
    \E p \in Procs :
        /\ procs[p].pc = "read"
        /\ procs[p].x.kind = "tree"
        /\ \E i \in 1..Len(procs[p].x.body) : procs[p].x.body[i] = "NUL"
        /\ procs[p].got.ok

(***************************************************************************)
(* Properties of the Myers diff, under SpecMyers.                          *)
(***************************************************************************)
RECURSIVE SelectSide(_, _)
\* the lines on one side of an edit list, in order
SelectSide(es, side) ==
    IF es = <<>> THEN <<>>
    ELSE LET e == Head(es)
             l == IF side = "a" THEN e.a ELSE e.b
             takes == IF side = "a" THEN e.kind \in {"Delete", "Equals"}
                      ELSE e.kind \in {"Insert", "Equals"}
         IN (IF takes THEN <<l>> ELSE <<>>) \o SelectSide(Tail(es), side)

SideIs(es, side, lines) ==
    LET s == SelectSide(es, side)
    IN /\ Len(s) = Len(lines)
       /\ \A i \in 1..Len(s) : s[i] = SomeLine(lines[i])

ValidScript(es, a, b) ==
    /\ SideIs(es, "a", a)
    /\ SideIs(es, "b", b)
    /\ \A i \in 1..Len(es) :
          es[i].kind = "Equals" =>
              /\ es[i].a.some /\ es[i].b.some
              /\ es[i].a.content = es[i].b.content

\* C19: for all line sequences A and B, diff returns a valid script: the
\* a sides of its Delete and Equals edits are A, numbered 0..n-1 in order,
\* the b sides of its Insert and Equals edits are B, numbered 0..m-1 in
\* order, and each Equals edit pairs lines of equal content.
C19_ValidScript ==
    myers.df.called =>
        /\ ~myers.df.panic
        /\ ValidScript(myers.df.edits, myers.lines.a, myers.lines.b)

RECURSIVE LCS(_, _)
\* the length of a longest common subsequence of the contents
LCS(a, b) ==
    IF a = <<>> \/ b = <<>> THEN 0
    ELSE IF Head(a).content = Head(b).content THEN 1 + LCS(Tail(a), Tail(b))
    ELSE LET l == LCS(Tail(a), b)
             r == LCS(a, Tail(b))
         IN IF l > r THEN l ELSE r

Distance(a, b) == Len(a) + Len(b) - 2 * LCS(a, b)

Changes(es) == Cardinality({i \in 1..Len(es) : es[i].kind \in {"Insert", "Delete"}})

\* C20: for all line sequences A and B, the Insert and Delete edits of diff
\* number D = n + m - 2 LCS(A, B), and shortest_edit returns a trace of
\* exactly D + 1 snapshots of V.
C20_ShortestScript ==
    /\ myers.df.called =>
          /\ ~myers.df.panic
          /\ Changes(myers.df.edits) = Distance(myers.lines.a, myers.lines.b)
    /\ myers.se.called =>
          /\ ~myers.se.panic
          /\ Len(myers.se.trace) = Distance(myers.lines.a, myers.lines.b) + 1

\* the same two statements for inputs that are not both empty
NotBothEmpty == Len(myers.lines.a) + Len(myers.lines.b) > 0

MyersHoldsOnLines ==
    NotBothEmpty =>
       /\ C19_ValidScript
       /\ C20_ShortestScript

(***************************************************************************)
(* Properties of Hunk::filter, under SpecHunk.                             *)
(***************************************************************************)
IsChange(es, i) == es[i].kind \in {"Insert", "Delete"}

\* the place of an edit in the list (the numbered edits of a list differ)
PlaceOf(es, e) == CHOOSE i \in 1..Len(es) : es[i] = e

\* the hunks as pairs of places: first and last edit of each
Slices(es, hs) ==
    [h \in 1..Len(hs) |->
        IF hs[h].edits = <<>> THEN [from |-> 0, to |-> 0, whole |-> FALSE]
        ELSE LET f == PlaceOf(es, hs[h].edits[1])
                 t == f + Len(hs[h].edits) - 1
             IN [from |-> f, to |-> t,
                 whole |-> t <= Len(es) /\ hs[h].edits = SubSeq(es, f, t)]]

\* the Equals edits just before place i, and just after it
EqualsBefore(es, i) ==
    Cardinality({j \in 1..(i - 1) : \A k \in j..(i - 1) : es[k].kind = "Equals"})

EqualsAfter(es, i) ==
    Cardinality({j \in (i + 1)..Len(es) : \A k \in (i + 1)..j : es[k].kind = "Equals"})

Least(s) == CHOOSE x \in s : \A y \in s : x <= y

Greatest(s) == CHOOSE x \in s : \A y \in s : x >= y

Smaller(x, y) == IF x < y THEN x ELSE y

HunksPartition(es, hs) ==
    LET sl == Slices(es, hs)
        changes == {i \in 1..Len(es) : IsChange(es, i)}
        inHunk(i, h) == sl[h].from <= i /\ i <= sl[h].to
        changesOf(h) == {i \in changes : inHunk(i, h)}
    IN /\ \A h \in 1..Len(hs) : sl[h].whole /\ changesOf(h) # {}
       /\ \A h \in 1..(Len(hs) - 1) : sl[h].to < sl[h + 1].from
       /\ \A i \in changes : Cardinality({h \in 1..Len(hs) : inHunk(i, h)}) = 1
       /\ \A h \in 1..Len(hs) :
             /\ Least(changesOf(h)) - sl[h].from
                   = Smaller(HUNK_CONTEXT, EqualsBefore(es, Least(changesOf(h))))
             /\ sl[h].to - Greatest(changesOf(h))
                   = Smaller(HUNK_CONTEXT, EqualsAfter(es, Greatest(changesOf(h))))
       /\ \A i, j \in changes :
             (i < j /\ \A k \in (i + 1)..(j - 1) : ~IsChange(es, k)) =>
                 ((j - i - 1 <= 2 * HUNK_CONTEXT)
                     <=> (\E h \in 1..Len(hs) : inHunk(i, h) /\ inHunk(j, h)))
       /\ (changes = {}) => hs = <<>>

\* C21: Hunk::filter partitions the changes of every edit list into hunks:
\* each hunk is a contiguous slice, the slices are disjoint and in order,
\* every Insert / Delete is in exactly one, a hunk has 3 Equals of context
\* on each side (fewer only when fewer exist), changes at most 6 Equals
\* apart share a hunk and changes 7 or more apart do not, and a list with
\* no change gives no hunk.
C21_HunkPartition == hunk.called => HunksPartition(hunk.edits, hunk.hunks)

\* two changes seven Equals apart have been put in two hunks
C21_Witness ==
    /\ hunk.called
    /\ Len(hunk.hunks) = 2
    /\ \E i \in 1..(Len(hunk.edits) - 8) :
          /\ IsChange(hunk.edits, i) /\ IsChange(hunk.edits, i + 8)
          /\ \A k \in (i + 1)..(i + 7) : ~IsChange(hunk.edits, k)

(***************************************************************************)
(* Properties of the index file, under SpecIndexFile.                      *)
(***************************************************************************)
Ascending(order) ==
    \A i \in 1..(Len(order) - 1) : BytesLess(PathBytes(order[i]), PathBytes(order[i + 1]))

\* C22: the file written for an index made by add / remove reads back as
\* the same entries, every field preserved (ten stat fields, oid, flags,
\* path), in the same ascending path order; each entry on disk is a
\* multiple of 8 bytes, and the trailing digest is the digest of all the
\* bytes before it, so load accepts the file.
C22_IndexFileRoundTrip ==
    /\ ixfile.written =>
          LET n == Len(ixfile.bytes)
          IN /\ ixfile.bytes[n] = Sha1(SubSeq(ixfile.bytes, 1, n - 1))
             /\ \A e \in ixfile.wrote : Len(pack(e)) % 8 = 0 /\ EntryFrom(pack(e)) = e
    /\ (ixfile.written /\ ixfile.read) =>
          /\ ~lastOp.panic
          /\ index.entries = ixfile.wrote
          /\ lastOp.order = [i \in 1..Len(lastOp.order) |-> StringOrder(ixfile.wrote)[i].path]
          /\ Len(lastOp.order) = Cardinality(ixfile.wrote)
          /\ Ascending(lastOp.order)

\* an index of three entries, with entries of 64, 72 and 80 bytes among
\* them, has been written and read back
C22_Witness ==
    /\ ixfile.written /\ ixfile.read
    /\ Cardinality(ixfile.wrote) = 3
    /\ \E e \in ixfile.wrote : Len(pack(e)) = 64
    /\ \E e \in ixfile.wrote : Len(pack(e)) = 80 /\ e.stat[6] = 2147483647

(***************************************************************************)
(* Properties of create_branch, under SpecRefs.                            *)
(***************************************************************************)
BranchFile(f, name) == Kind(f, HeadsPath \o name) = "file"

Creates(name, start) ==
    /\ lastOp'.result = "Ok"
    /\ BranchFile(fs', name)
    /\ fs'.files[HeadsPath \o name].data = RefChunks(start.oid)

Refuses(name) ==
    /\ lastOp'.result = "AlreadyExists"
    /\ fs'.files[HeadsPath \o name] = fs.files[HeadsPath \o name]

\* C23: create_branch with a valid name, no file refs/heads/<name> and a
\* start oid creates the file holding the oid and a newline; a later
\* create_branch of the same name fails with AlreadyExists and leaves the
\* file as it is.
C23_CreateBranch ==
    [][lastOp'.op = "create_branch" =>
          LET name == lastOp'.name
              start == lastOp'.start
          IN /\ BranchFile(fs, name) => Refuses(name)
             /\ (/\ ~INVALID_NAME(PathBytes(name))
                 /\ ~BranchFile(fs, name)
                 /\ start.some) => Creates(name, start)]_vars

\* the same for a name without '/' where no directory has that name
PlainBranches ==
    [][lastOp'.op = "create_branch" =>
          LET name == lastOp'.name
              start == lastOp'.start
          IN /\ BranchFile(fs, name) => Refuses(name)
             /\ (/\ ~INVALID_NAME(PathBytes(name))
                 /\ Len(name) = 1
                 /\ Kind(fs, HeadsPath \o name) = "none"
                 /\ start.some) => Creates(name, start)]_vars

\* a branch was created and a second create_branch of it was refused
PlainBranchesSeen ==
    /\ lastOp.op = "create_branch"
    /\ lastOp.result = "AlreadyExists"
    /\ lastOp.start.some
    /\ BranchFile(fs, lastOp.name)
    /\ fs.files[HeadsPath \o lastOp.name].data # RefChunks(lastOp.start.oid)

(***************************************************************************)
(* Properties of status, under SpecStatus.  lastOp.index is the index      *)
(* status started from.                                                    *)
(***************************************************************************)
\* the letter status gives a path in one of its two columns
Column(changes, p) == IF p \in DOMAIN changes THEN changes[p] ELSE " "

Reported == status.report.called

\* the workspace file of an entry has other content or another mode
Differs(e) ==
    \/ BlobOid(fs.files[e.path].data) # e.oid
    \/ fs.files[e.path].mode # e.mode

WorkspaceLetter(e) ==
    IF Kind(fs, e.path) # "file" THEN "D"
    ELSE IF Differs(e) THEN "M"
    ELSE " "

\* C24: of the entries of the index, one whose file is missing is reported
\* D in the workspace column, one whose file has other content (even of
\* the same size) or another mode M, and no other is reported.
C24_WorkspaceColumn ==
    Reported =>
        \A e \in lastOp.index.entries :
            Column(status.report.workspace_changes, e.path) = WorkspaceLetter(e)

\* a file rewritten with content as long, its mode and its times as before
SameStat(e) ==
    /\ Kind(fs, e.path) = "file"
    /\ BlobOid(fs.files[e.path].data) # e.oid
    /\ stat_match(e, Metadata(fs, e.path))
    /\ stat_times_match(e, Metadata(fs, e.path))

\* the same where the stat tells every rewritten file
WorkspaceColumnByStat ==
    Reported =>
        \A e \in lastOp.index.entries :
            ~SameStat(e) =>
                Column(status.report.workspace_changes, e.path) = WorkspaceLetter(e)

\* a touched file was hashed and its entry given the new times
StatRefreshed ==
    /\ Reported
    /\ \E e \in lastOp.index.entries :
          /\ Kind(fs, e.path) = "file"
          /\ ~Differs(e)
          /\ e.time # fs.files[e.path].time
          /\ GetEntry(index.entries, e.path).time = fs.files[e.path].time
          /\ e.path \notin status.report.changed

InHead(p) == \E item \in status.head.oid : item.path = p

HeadItem(p) == CHOOSE item \in status.head.oid : item.path = p

IndexLetter(p) ==
    LET es == lastOp.index.entries
    IN IF HasKey(es, p)
       THEN IF ~InHead(p) THEN "A"
            ELSE IF HeadItem(p).oid # GetEntry(es, p).oid \/ HeadItem(p).mode # GetEntry(es, p).mode
                 THEN "M"
                 ELSE " "
       ELSE IF InHead(p) THEN "D" ELSE " "

\* C25: against HEAD's tree, an entry absent from HEAD is reported A in the
\* index column, one of another oid or mode M, a file of HEAD without an
\* entry D, whatever the index holds, and nothing else is reported.
C25_IndexColumn ==
    (Reported /\ status.head.some) =>
        \A p \in StatusPaths : Column(status.report.index_changes, p) = IndexLetter(p)

\* the same where the index has an entry and no entry lies under a file of HEAD
IndexColumnOfEntries ==
    (Reported /\ status.head.some /\ lastOp.index.entries # {}) =>
        \A p \in StatusPaths :
            ~(InHead(p) /\ p \in DOMAIN lastOp.index.parents) =>
                Column(status.report.index_changes, p) = IndexLetter(p)

IndexColumnSeen ==
    /\ Reported /\ status.head.some
    /\ \E p, q \in StatusPaths :
          /\ Column(status.report.index_changes, p) = "A"
          /\ Column(status.report.index_changes, q) = "D"

Tracked(d) == d = <<>> \/ d \in DOMAIN lastOp.index.parents

HoldsFile(d) == \E q \in DOMAIN fs.files : IsStrictAncestor(d, q)

UntrackedFiles ==
    {p \in DOMAIN fs.files :
        /\ p[1] \notin IGNORED
        /\ ~HasKey(lastOp.index.entries, p)
        /\ Tracked(Parent(p))}

UntrackedDirs ==
    {d \in fs.dirs \ {<<>>} :
        /\ d[1] \notin IGNORED
        /\ d \notin DOMAIN lastOp.index.parents
        /\ Tracked(Parent(d))
        /\ HoldsFile(d)}

\* C26: the untracked list is, in order and each once, the files without
\* an entry that lie in the root or in a directory with tracked entries, and
\* the directories (with a trailing '/') without entries beneath that hold
\* a file at any depth; nothing inside such a directory is listed.
C26_Untracked ==
    Reported =>
        status.report.untracked =
            SortBytes({PathBytes(p) : p \in UntrackedFiles}
                      \cup {PathBytes(d) \o <<47>> : d \in UntrackedDirs})

\* a path is a file on one side and a directory on the other
TypeChanged ==
    \/ \E p \in DOMAIN fs.files : p \in DOMAIN lastOp.index.parents
    \/ \E d \in fs.dirs : HasKey(lastOp.index.entries, d)

\* the same where no path changed between file and directory
UntrackedOfSameTypes ==
    (Reported /\ ~TypeChanged) =>
        status.report.untracked =
            SortBytes({PathBytes(p) : p \in UntrackedFiles}
                      \cup {PathBytes(d) \o <<47>> : d \in UntrackedDirs})

UntrackedSeen ==
    /\ Reported /\ ~TypeChanged
    /\ Len(status.report.untracked) = 2
    /\ \E d \in fs.dirs \ {<<>>} : d[1] \notin IGNORED /\ ~HoldsFile(d)

(***************************************************************************)
(* Properties of add with a path that matches nothing, under SpecLock.     *)
(***************************************************************************)
\* the invocation is in git_add's loop over the paths
Adding(p) == procs[p].cmd = "add" /\ procs[p].pc \in {"add", "add_more"}

\* C27: an add that meets a path matching no file exits (with code 128)
\* with .git/index.lock released, and from its opening the index to that
\* exit no step changes .git/index: nothing is staged, not even the paths
\* it added before.
C27_AddNoMatch ==
    [][\A p \in Procs :
          Adding(p) =>
             /\ gitfs'[GitFile("index", FALSE)] = gitfs[GitFile("index", FALSE)]
             /\ procs'[p].pc = "exited" => ~gitfs'[GitFile("index", TRUE)].exists]_vars

\* an add staged a path, met a path that matches nothing and exited
C27_Witness ==
    \E p \in Procs :
        /\ procs[p].pc = "exited"
        /\ procs[p].staged # NoStaged
        /\ HasKey(procs[p].idx.entries, procs[p].staged.path)
        /\ ~HasKey(DiskEntries(gitfs[GitFile("index", FALSE)]), <<"b", "a">>)
        /\ procs[p].staged.path = <<"b", "a">>
        /\ ~gitfs[GitFile("index", TRUE)].exists

(***************************************************************************)
(* Properties of Revision::from, under SpecRevision.                       *)
(***************************************************************************)
RECURSIVE Grammar(_)
\* the revision a string stands for: <expr>^, <expr>~<digits>, the
\* rightmost operator outermost, or a name; anything else is no revision
Grammar(s) ==
    IF s = <<>> THEN BadRevision
    ELSE IF Len(s) >= 2 /\ s[Len(s)] = 94
    THEN LET r == Grammar(SubSeq(s, 1, Len(s) - 1))
         IN IF r = BadRevision THEN BadRevision ELSE ParentRev(r)
    ELSE IF \E k \in 2..(Len(s) - 1) : s[k] = 126 /\ IsDigits(SubSeq(s, k + 1, Len(s)))
    THEN LET k == CHOOSE k \in 2..(Len(s) - 1) : s[k] = 126 /\ IsDigits(SubSeq(s, k + 1, Len(s)))
             r == Grammar(SubSeq(s, 1, k - 1))
         IN IF r = BadRevision THEN BadRevision
            ELSE AncestorRev(r, ParseDigits(SubSeq(s, k + 1, Len(s))))
    ELSE IF s = <<64>> THEN Ref(HEAD)
    ELSE IF INVALID_NAME(s) THEN BadRevision
    ELSE Ref(s)

\* C28: Revision::from accepts exactly the grammar of names, '@', <expr>^
\* and <expr>~<digits>, the rightmost operator outermost; every other
\* string, the empty one too, fails with BadRevision.
C28_RevisionGrammar == rev.parsed => rev.revision = Grammar(rev.input)

\* the same for the strings that are not empty
GrammarOfNonEmpty == (rev.parsed /\ rev.input # <<>>) => rev.revision = Grammar(rev.input)

\* a~1^ was parsed: the parent of the first ancestor of a
GrammarSeen ==
    /\ rev.parsed
    /\ rev.input = <<97, 126, 49, 94>>
    /\ rev.revision = ParentRev(AncestorRev(Ref(<<97>>), 1))

(***************************************************************************)
(* Properties of read_ref, under SpecResolve.                              *)
(***************************************************************************)
Candidates == {o \in rev.objects : StartsWith(o, rev.name)}

ResolvesAsClaimed ==
    /\ ~rev.out.panic
    /\ IF DOMAIN rev.refs # {}
       THEN /\ rev.out.result.some
            /\ \E p \in DOMAIN rev.refs : rev.refs[p] = rev.out.result.oid \o <<10>>
            /\ rev.out.errors = <<>>
       ELSE CASE Cardinality(Candidates) = 0 ->
                    rev.out.result = NoOid /\ rev.out.errors = <<>>
              [] Cardinality(Candidates) = 1 ->
                    rev.out.result.some /\ rev.out.result.oid \in Candidates
                                        /\ rev.out.errors = <<>>
              [] OTHER ->
                    /\ rev.out.result = NoOid
                    /\ Len(rev.out.errors) = 1
                    /\ Elements(rev.out.errors[1].hints) = Candidates
                    /\ Len(rev.out.errors[1].hints) = Cardinality(Candidates)

\* C29: a Ref resolves to the content of its ref file if there is one;
\* otherwise, for every name, names of fewer than two characters and names
\* whose shard directory is absent too, to none without a hinted error when
\* no object id starts with it, to the one id that does, and to none with
\* exactly one hinted error listing every candidate when several do.
C29_ReadRef == rev.called => ResolvesAsClaimed

\* the same for names of two characters or more, or with a ref file
ReadRefOfLongNames ==
    (rev.called /\ (Len(rev.name) >= 2 \/ DOMAIN rev.refs # {})) => ResolvesAsClaimed

\* two ids started with the name and one error listed both
AmbiguousSeen ==
    /\ rev.called
    /\ DOMAIN rev.refs = {}
    /\ Cardinality(Candidates) = 2
    /\ Len(rev.out.errors) = 1

(***************************************************************************)
(* Properties of the rmdir phase of Workspace::apply_migration, under      *)
(* SpecCheckout.                                                           *)
(***************************************************************************)
\* no directory was tried before a directory beneath it
DeepestFirst(l) ==
    \A i, j \in 1..Len(l) :
        (i < j /\ l[i].kind = "rmdir" /\ l[j].kind = "rmdir")
            => ~IsStrictAncestor(l[i].path, l[j].path)

\* this step is the rmdir of a directory that is not empty, or of the root
RmdirOfNonEmpty ==
    /\ pc = "workspace" /\ WorkLeft(todo) /\ CurrentPhase(todo) = "rmdir"
    /\ LET p == workspace_path(Head(todo["rmdir"]).path)
       IN Kind(fs, p) = "dir" /\ (HasChildren(fs, p) \/ p = <<>>)

\* C30: the directories of plan.rmdirs are tried deepest first, and an
\* rmdir that fails because the directory is not empty (or is the
\* workspace root) is ignored: the directory stays and the migration goes
\* on without error.
C30_RmdirPhase ==
    [][/\ DeepestFirst(log')
       /\ RmdirOfNonEmpty => (fs' = fs /\ result' = result /\ pc' = "workspace")]_vars

\* the order alone, of the directories still to be tried
RmdirDeepestFirst == pc = "workspace" => DeepestFirst(todo["rmdir"])

\* a directory and one beneath it are to be tried
RmdirOrderSeen ==
    /\ pc = "workspace"
    /\ \E i, j \in 1..Len(todo["rmdir"]) :
          i < j /\ IsStrictAncestor(todo["rmdir"][j].path, todo["rmdir"][i].path)

(***************************************************************************)
(* Properties of the mkdir phase of Workspace::apply_migration, under      *)
(* SpecCheckout.                                                           *)
(***************************************************************************)
\* no directory comes before a directory above it
ShallowestFirst(l) ==
    \A i, j \in 1..Len(l) :
        (i < j /\ l[i].kind = "mkdir" /\ l[j].kind = "mkdir")
            => ~IsStrictAncestor(l[j].path, l[i].path)

\* this step is the mkdir of the directory MkdirPath
MkdirStep == pc = "workspace" /\ WorkLeft(todo) /\ CurrentPhase(todo) = "mkdir"

MkdirPath == workspace_path(Head(todo["mkdir"]).path)

\* C31: the directories of plan.mkdirs are handled shallowest first; one
\* that exists (the workspace root, or one listed several times) is left
\* as it is without error, one that is absent is created, and the
\* migration goes on.
C31_MkdirPhase ==
    [][MkdirStep =>
          /\ ShallowestFirst(todo["mkdir"])
          /\ result' = result /\ pc' = "workspace"
          /\ Kind(fs', MkdirPath) = "dir"
          /\ Kind(fs, MkdirPath) = "dir" => fs' = fs]_vars

\* the order alone, of the directories still to be handled
MkdirShallowestFirst == pc = "workspace" => ShallowestFirst(todo["mkdir"])

\* a directory and one beneath it are to be handled
MkdirOrderSeen ==
    /\ pc = "workspace"
    /\ \E i, j \in 1..Len(todo["mkdir"]) :
          i < j /\ IsStrictAncestor(todo["mkdir"][i].path, todo["mkdir"][j].path)

(***************************************************************************)
(* Properties of plan_changes, under SpecCheckout.                         *)
(***************************************************************************)
PlanMade == Planned /\ migration # <<>>

Listed(action) == DOMAIN migration.changes[action]

\* the ancestor directories of a set of paths
AncestorsOf(ps) == UNION {Elements(ancestors(p)) : p \in ps}

\* C32: every path of the tree-difference is in exactly one list, Create
\* iff before is none, Remove iff before is there and after is none, Update
\* iff both are there; a Create or Update carries the after entry, which is
\* there; mkdirs are the ancestors of the Create and Update paths, rmdirs
\* those of the Remove paths; no other path is in the plan.
C32_PlanChanges ==
    PlanMade =>
        LET d == migration.diff
        IN /\ Listed("Create") = {p \in DOMAIN d : d[p][1] = NoneV}
           /\ Listed("Remove") = {p \in DOMAIN d : d[p][1] # NoneV /\ d[p][2] = NoneV}
           /\ Listed("Update") = {p \in DOMAIN d : d[p][1] # NoneV /\ d[p][2] # NoneV}
           /\ \A action \in {"Create", "Update"} : \A p \in Listed(action) :
                 /\ migration.changes[action][p] = d[p][2]
                 /\ migration.changes[action][p] # NoneV
           /\ Elements(migration.mkdirs) = AncestorsOf(Listed("Create") \cup Listed("Update"))
           /\ Elements(migration.rmdirs) = AncestorsOf(Listed("Remove"))

\* the same but for the entry of a Create being there
PlanChangesLists ==
    PlanMade =>
        LET d == migration.diff
        IN /\ Listed("Create") = {p \in DOMAIN d : d[p][1] = NoneV}
           /\ Listed("Remove") = {p \in DOMAIN d : d[p][1] # NoneV /\ d[p][2] = NoneV}
           /\ Listed("Update") = {p \in DOMAIN d : d[p][1] # NoneV /\ d[p][2] # NoneV}
           /\ \A action \in {"Create", "Update"} : \A p \in Listed(action) :
                 migration.changes[action][p] = d[p][2]
           /\ \A p \in Listed("Update") : migration.changes["Update"][p] # NoneV
           /\ Elements(migration.mkdirs) = AncestorsOf(Listed("Create") \cup Listed("Update"))
           /\ Elements(migration.rmdirs) = AncestorsOf(Listed("Remove"))

\* a plan with a Create, a Remove and an Update
PlanChangesSeen ==
    /\ PlanMade
    /\ Listed("Create") # {} /\ Listed("Remove") # {} /\ Listed("Update") # {}

(***************************************************************************)
(* Properties of the revision resolver, under SpecChain.                   *)
(***************************************************************************)
\* the parent of a commit of the chain: none for a root commit and for none
ParentOf(db, o) ==
    IF o.some /\ \E i \in 1..Len(ChainIds) : ChainIds[i] = o.oid /\ db[i].kind = "commit"
    THEN db[CHOOSE i \in 1..Len(ChainIds) : ChainIds[i] = o.oid].parent
    ELSE NoOid

RECURSIVE Parents(_, _, _)
\* Parent applied n times
Parents(db, o, n) == IF n = 0 THEN o ELSE Parents(db, ParentOf(db, o), n - 1)

RECURSIVE NestParent(_, _)
\* the revision r^...^ with n carets
NestParent(r, n) == IF n = 0 THEN r ELSE NestParent(ParentRev(r), n - 1)

\* C33: Ancestor(rev, n) resolves to Parent applied n times to what rev
\* resolves to, and to what rev followed by n carets resolves to; the Parent
\* of a root commit and of none is none; a revision that evaluates to none
\* makes the resolution fail
C33_Ancestor ==
    rev.called =>
        LET e == rev.expr
            inner == resolv(rev.db, rev.refs, e.rev)
        IN /\ e.kind = "Ancestor" =>
                /\ rev.found = resolv(rev.db, rev.refs, NestParent(e.rev, e.n))
                /\ ~inner.panic => rev.found.oid = Parents(rev.db, inner.oid, e.n)
           /\ (e.kind = "Parent" /\ ~inner.panic) =>
                rev.found.oid = ParentOf(rev.db, inner.oid)
           /\ (rev.found.panic \/ ~rev.found.oid.some) => rev.out.kind # "Ok"
           /\ rev.out.kind = "Ok" => rev.found.oid = SomeBytes(rev.out.oid)

\* x~2 resolved to a commit and three more generations ran past the root
AncestorSeen ==
    /\ rev.called
    /\ rev.expr.kind = "Ancestor" /\ rev.expr.n = 3 /\ rev.expr.rev.kind = "Ancestor"
    /\ rev.expr.rev.n = 2 /\ ~rev.found.oid.some /\ rev.out.kind = "Err"
    /\ resolv(rev.db, rev.refs, rev.expr.rev).oid.some

(***************************************************************************)
(* Properties of the checkout command, under SpecCheckout.                 *)
(***************************************************************************)
IndexOnDisk(g) == DiskEntries(g[GitFile("index", FALSE)])

\* C34: a checkout whose revision does not resolve leaves the files of the
\* working tree and the index as they are, and plans and applies no migration
C34_FailedResolve ==
    [][rev.res = "Err" =>
          /\ fs' = fs
          /\ IndexOnDisk(gitfs') = IndexOnDisk(gitfs)
          /\ migration' # <<>> => migration'.diff = <<>>
          /\ log' = <<>>]_vars

\* the index on disk holds the same entries after every step of such a
\* checkout
FailedResolveKeepsIndex ==
    [][rev.res = "Err" => IndexOnDisk(gitfs') = IndexOnDisk(gitfs)]_vars

\* a checkout whose revision did not resolve took a file out of the workspace
FailedResolveSeen ==
    /\ rev.res = "Err" /\ pc = "done"
    /\ \E i \in 1..Len(log) : log[i].kind = "Remove" /\ log[i].ok

\* the migration a checkout of the same revision would plan now: exec never
\* writes HEAD, so get_head() gives the commit it gave before
RepeatedDiff == tree_diff(SomeOid(treeA), branch_oid)

\* C35: after a checkout of a resolved revision that succeeded (exec
\* returned Ok(())), a repeated checkout of the same revision computes an
\* empty migration
C35_Idempotent ==
    (pc = "done" /\ rev.res = "Ok") => RepeatedDiff = <<>>

\* the same of the checkouts whose migration was applied without an error
IdempotentWithoutError ==
    (pc = "done" /\ rev.res = "Ok" /\ result = "ok") => RepeatedDiff = <<>>

\* every checkout between different trees ends with an error printed
ChangingCheckoutErrs ==
    (pc = "done" /\ rev.res = "Ok" /\ treeA # treeB) => result = "error"

(***************************************************************************)
(* Properties of Index::has_entry, under SpecIndex.                        *)
(***************************************************************************)
\* an entry at the path or beneath it
EntryAtOrBeneath(idx, p) ==
    \E e \in idx.entries : e.path = p \/ IsStrictAncestor(p, e.path)

\* C36: after any adds and removes, has_entry(path) is true iff the index
\* holds an entry at the path or beneath it
C36_HasEntry ==
    \A p \in IndexPaths : has_entry(index, p) <=> EntryAtOrBeneath(index, p)

\* has_entry is true of every path with an entry at it or beneath it
HasEntryOfEveryEntry ==
    \A p \in IndexPaths : EntryAtOrBeneath(index, p) => has_entry(index, p)

\* a remove has just taken the last entry beneath a directory
LastEntryRemoved ==
    /\ lastOp.op = "remove" /\ lastOp.present
    /\ \E p \in IndexPaths : IsStrictAncestor(p, lastOp.path) /\ ~EntryAtOrBeneath(index, p)

(***************************************************************************)
(* Properties of the dirty flag of the index, under SpecCheckout: at       *)
(* "plan" the index has been loaded and neither add nor remove was called. *)
(***************************************************************************)
\* C37: an index that was only loaded from .git/index is not dirty
C37_LoadedIsClean == pc = "plan" => ~index.changed

\* an index loaded from a file without entries is not dirty
LoadedEmptyIsClean == (pc = "plan" /\ index.entries = {}) => ~index.changed

\* write_updates on an index that is not dirty releases the lock and leaves
\* .git/index as it is
CleanWriteKeepsFile ==
    [][(pc = "commit" /\ ~index.changed) =>
          /\ gitfs'[GitFile("index", FALSE)] = gitfs[GitFile("index", FALSE)]
          /\ ~gitfs'[GitFile("index", TRUE)].exists]_vars

\* a checkout that changed nothing in the index wrote .git/index anew
LoadedIndexRewritten ==
    /\ pc = "done" /\ log = <<>> /\ treeA = treeB /\ index.changed
    /\ IndexOnDisk(gitfs) = index.entries

(***************************************************************************)
(* Properties of Index::load on a damaged file, under SpecDamagedFile.     *)
(***************************************************************************)
DamagedLoad == ixfile.written /\ ixfile.read /\ "damaged" \in DOMAIN ixfile

\* C38: the load of an index file with another magic, another version or
\* another trailing digest returns an error to its caller: it does not
\* succeed and does not terminate the program abnormally
C38_CorruptIsError == DamagedLoad => ~lastOp.panic

\* no such file is loaded: the load does not return
DamagedNeverLoads == DamagedLoad => lastOp.panic

\* a file with three entries and another digest was given to load
DamagedDigestSeen ==
    DamagedLoad /\ ixfile.damaged = "digest" /\ Cardinality(ixfile.wrote) = 3

(***************************************************************************)
(* Properties of the accesses to V, under SpecMyers.                       *)
(***************************************************************************)
\* C39: for all A and B, one or both empty included, the search ends within
\* n + m rounds and no access to V falls outside [-max, max] or reads an
\* entry that is not defined, in the search and in the backtrack
C39_InBounds ==
    /\ myers.se.called =>
          /\ ~myers.se.panic
          /\ Len(myers.se.trace) <= Len(myers.lines.a) + Len(myers.lines.b) + 1
    /\ myers.df.called => ~backtrack(myers.lines.a, myers.lines.b).panic

\* the same of all inputs but the two empty sequences
InBoundsOfNonEmpty ==
    (Len(myers.lines.a) + Len(myers.lines.b) > 0) =>
        /\ myers.se.called =>
              /\ ~myers.se.panic
              /\ Len(myers.se.trace) <= Len(myers.lines.a) + Len(myers.lines.b) + 1
        /\ myers.df.called => ~backtrack(myers.lines.a, myers.lines.b).panic

\* the search ran its n + m rounds on sequences without a common line
LongestSearchSeen ==
    /\ myers.se.called /\ ~myers.se.panic
    /\ Len(myers.lines.a) = MaxLines /\ Len(myers.lines.b) = MaxLines
    /\ Len(myers.se.trace) = 2 * MaxLines + 1

(***************************************************************************)
(* Properties of two create_branch calls side by side, under SpecRace.     *)
(***************************************************************************)
BothReturned == \A p \in Procs : procs[p].pc = "done"

Succeeded == {p \in Procs : procs[p].result = "Ok"}

\* C40: of two create_branch calls with the same name, in any interleaving,
\* at most one returns success and the other fails with AlreadyExists or
\* AlreadyLocked; the branch file holds the oid of the successful call; a
\* branch that exists is never overwritten
C40_BranchRace ==
    /\ [](BothReturned =>
            /\ Cardinality(Succeeded) <= 1
            /\ \A p \in Procs \ Succeeded :
                  Succeeded # {} => procs[p].result \in {"AlreadyExists", "AlreadyLocked"}
            /\ \A p \in Succeeded : fs.files[RacePath].data = RefChunks(procs[p].start))
    /\ [][Kind(fs, RacePath) = "file" =>
            /\ Kind(fs', RacePath) = "file"
            /\ fs'.files[RacePath] = fs.files[RacePath]]_vars

\* a branch that was there before the two calls keeps its content, and
\* what is at the branch path is never a part of what a call writes
BranchFileWhole ==
    [](Kind(fs, RacePath) = "file" =>
          \E o \in RaceStarts : fs.files[RacePath].data = RefChunks(o))

\* both calls returned Ok with different oids
BothCreated ==
    /\ BothReturned /\ Succeeded = Procs
    /\ procs[1].start # procs[2].start
====
